---------------------------- MODULE Spec2Model ----------------------------
(***************************************************************************)
(* A model of the FIT stream decoder of running-analyzer                   *)
(* (lib/fit-parser.ts, class FITParser).                                   *)
(*                                                                         *)
(* The byte buffer is a sequence of bytes; byte offset o of the DataView   *)
(* is element o + 1 of the sequence.  A DataView read outside the buffer   *)
(* throws a RangeError: the operators below return that outcome            *)
(* explicitly, and the try/catch blocks of the source are modelled where   *)
(* the source has them.                                                    *)
(*                                                                         *)
(* Numbers.  TLC's integers are 32-bit signed, a uint32 is not.            *)
(* A decoded value is a record [k, hi, lo]:                                *)
(*   k = "null"  absent (JavaScript null)                                  *)
(*   k = "num"   the integer hi * 2^31 + lo  (hi is 1 only for a uint32    *)
(*               of 2^31 or more)                                          *)
(*   k = "f32"   the IEEE-754 single whose bit pattern is hi * 2^31 + lo   *)
(*   k = "f64"   the IEEE-754 double whose high and low 32-bit words are   *)
(*               hi and lo, each taken as a signed 32-bit integer          *)
(***************************************************************************)
EXTENDS Integers, Sequences, FiniteSets, TLC

VARIABLES
    view,             \* this.view: the bytes of the ArrayBuffer
    offset,           \* this.offset: the read cursor
    definitions,      \* this.definitions: local type -> message definition
    developerFields,  \* this.developerFields: "idx_num" -> description
    endOffset,        \* parse(): const endOffset
    records,          \* parse(): const records
    pc,               \* where parse() stands: start, loop, done, threw
    last,             \* what the latest iteration of the decode loop did
    parsers,          \* two FITParser instances, each with the fields above
    input,            \* processRecords: the records argument
    kept,             \* processRecords: the array records.filter returns
    lastValidDistance,\* processRecords: let lastValidDistance
    points,           \* processRecords: the points map has produced so far
    ppc,              \* where processRecords stands: idle, filter, map, returned
    calls,            \* how many times parse() was called on the instance
    firstRecords,     \* the array the first call of parse() returned
    ui,               \* App: the state the component renders
    loads             \* App: the invocations of handleFileSelect

\* the variables of one parse, of the two-instance run, of processRecords, of
\* a repeated parse and of the App component
parserVars == <<view, offset, definitions, developerFields, endOffset, records, pc, last>>
twoVars == <<parsers>>
processVars == <<input, kept, lastValidDistance, points, ppc>>
againVars == <<calls, firstRecords>>
loadVars == <<ui, loads>>

vars == <<parserVars, twoVars, processVars, againVars, loadVars>>

---------------------------------------------------------------------------
(* FIT protocol constants *)

FIT_MESSAGE_TYPE_DEFINITION == 64
FIT_MESSAGE_TYPE_DEV_FIELDS == 32
FIT_COMPRESSED_TIMESTAMP == 128
MSG_FIELD_DESCRIPTION == 206
MSG_DEVELOPER_DATA_ID == 207
MSG_RECORD == 20

\* '.FIT' as char codes
FIT_SIGNATURE == <<46, 70, 73, 84>>

\* RECORD_FIELDS[n]; "" stands for undefined (both are falsy in the source)
RECORD_FIELDS(n) ==
    CASE n = 253 -> "timestamp"
      [] n = 0 -> "position_lat"
      [] n = 1 -> "position_long"
      [] n = 2 -> "altitude"
      [] n = 3 -> "heart_rate"
      [] n = 4 -> "cadence"
      [] n = 5 -> "distance"
      [] n = 6 -> "speed"
      [] n = 7 -> "power"
      [] n = 39 -> "vertical_oscillation"
      [] n = 40 -> "stance_time_percent"
      [] n = 41 -> "stance_time"
      [] n = 42 -> "activity_type"
      [] n = 43 -> "left_right_balance"
      [] n = 44 -> "gps_accuracy"
      [] n = 45 -> "vertical_speed"
      [] n = 46 -> "calories"
      [] n = 47 -> "vertical_ratio"
      [] n = 48 -> "stance_time_balance"
      [] n = 49 -> "step_length"
      [] n = 53 -> "fractional_cadence"
      [] n = 62 -> "enhanced_altitude"
      [] n = 73 -> "enhanced_speed"
      [] n = 78 -> "saturated_hemoglobin_percent"
      [] n = 79 -> "total_hemoglobin_conc"
      [] n = 83 -> "core_temperature"
      [] OTHER -> ""

---------------------------------------------------------------------------
(* DataView *)

Max(a, b) == IF a >= b THEN a ELSE b

byteLength(v) == Len(v)

\* a read of w bytes at byte offset o lies inside the buffer
InBounds(v, o, w) == o >= 0 /\ o + w <= byteLength(v)

ByteAt(v, o) == v[o + 1]

\* the w bytes at o, most significant first
BytesMSB(v, o, w, isLittleEndian) ==
    [i \in 1..w |-> IF isLittleEndian THEN ByteAt(v, o + w - i) ELSE ByteAt(v, o + i - 1)]

Null == [k |-> "null", hi |-> 0, lo |-> 0]
Num(n) == [k |-> "num", hi |-> 0, lo |-> n]

\* signed 32-bit integer of four bytes, most significant first
Int32Of(b) ==
    (IF b[1] >= 128 THEN b[1] - 256 ELSE b[1]) * 16777216 + b[2] * 65536 + b[3] * 256 + b[4]

\* the low 31 bits of four bytes, most significant first
Low31Of(b) == (b[1] % 128) * 16777216 + b[2] * 65536 + b[3] * 256 + b[4]

getUint8(v, o) == Num(ByteAt(v, o))

getInt8(v, o) == Num(IF ByteAt(v, o) >= 128 THEN ByteAt(v, o) - 256 ELSE ByteAt(v, o))

getUint16(v, o, isLittleEndian) ==
    LET b == BytesMSB(v, o, 2, isLittleEndian) IN Num(b[1] * 256 + b[2])

getInt16(v, o, isLittleEndian) ==
    LET b == BytesMSB(v, o, 2, isLittleEndian)
        u == b[1] * 256 + b[2]
    IN  Num(IF u >= 32768 THEN u - 65536 ELSE u)

getUint32(v, o, isLittleEndian) ==
    LET b == BytesMSB(v, o, 4, isLittleEndian)
    IN  [k |-> "num", hi |-> b[1] \div 128, lo |-> Low31Of(b)]

getInt32(v, o, isLittleEndian) ==
    Num(Int32Of(BytesMSB(v, o, 4, isLittleEndian)))

getFloat32(v, o, isLittleEndian) ==
    LET b == BytesMSB(v, o, 4, isLittleEndian)
    IN  [k |-> "f32", hi |-> b[1] \div 128, lo |-> Low31Of(b)]

getFloat64(v, o, isLittleEndian) ==
    LET b == BytesMSB(v, o, 8, isLittleEndian)
    IN  [k |-> "f64", hi |-> Int32Of(SubSeq(b, 1, 4)), lo |-> Int32Of(SubSeq(b, 5, 8))]

---------------------------------------------------------------------------
(* readHeader *)

NoHeader == [ok |-> FALSE, headerSize |-> 0, protocolVersion |-> 0,
             profileVersion |-> 0, dataSize |-> 0]

readHeader_NoSignatureCheck(v) ==
    IF ~InBounds(v, 0, 12)
    THEN NoHeader
    ELSE [ok |-> TRUE,
          headerSize |-> ByteAt(v, 0),
          protocolVersion |-> ByteAt(v, 1),
          profileVersion |-> ByteAt(v, 2) + 256 * ByteAt(v, 3),
          dataSize |-> ByteAt(v, 4) + 256 * ByteAt(v, 5) + 65536 * ByteAt(v, 6)
                       + 16777216 * ByteAt(v, 7)]

\* The try block reads bytes 0..11; any read outside the buffer throws and the
\* catch returns null.  dataSize is the little-endian uint32 at byte 4.
readHeader(v) ==
    IF ~(InBounds(v, 0, 1) /\ InBounds(v, 1, 1) /\ InBounds(v, 2, 2) /\ InBounds(v, 4, 4)
         /\ InBounds(v, 8, 1) /\ InBounds(v, 9, 1) /\ InBounds(v, 10, 1) /\ InBounds(v, 11, 1))
    THEN NoHeader
    ELSE IF <<ByteAt(v, 8), ByteAt(v, 9), ByteAt(v, 10), ByteAt(v, 11)>> # FIT_SIGNATURE
    THEN NoHeader
    ELSE [ok |-> TRUE,
          headerSize |-> ByteAt(v, 0),
          protocolVersion |-> ByteAt(v, 1),
          profileVersion |-> ByteAt(v, 2) + 256 * ByteAt(v, 3),
          dataSize |-> ByteAt(v, 4) + 256 * ByteAt(v, 5) + 65536 * ByteAt(v, 6)
                       + 16777216 * ByteAt(v, 7)]

---------------------------------------------------------------------------
(* readFieldValue, readDevFieldValue *)

\* what a DataView getter does when the read leaves the buffer
RangeError == [k |-> "RangeError", hi |-> 0, lo |-> 0]

\* the value of a getter of w bytes at o, or the RangeError it throws
Get(v, o, w, value) == IF InBounds(v, o, w) THEN value ELSE RangeError

\* the switch of readFieldValue; the cases 131..137 of the source are
\* unreachable since baseType is masked with 0x1F
FieldSwitch(v, o, field, isLittleEndian) ==
    LET baseType == field.baseType % 32
    IN  CASE baseType \in {0, 2} -> Get(v, o, 1, getUint8(v, o))
          [] baseType = 1 -> Get(v, o, 1, getInt8(v, o))
          [] baseType = 3 ->
                IF field.fieldSize >= 2 THEN Get(v, o, 2, getInt16(v, o, isLittleEndian)) ELSE Null
          [] baseType = 4 ->
                IF field.fieldSize >= 2 THEN Get(v, o, 2, getUint16(v, o, isLittleEndian)) ELSE Null
          [] baseType = 5 ->
                IF field.fieldSize >= 4 THEN Get(v, o, 4, getInt32(v, o, isLittleEndian)) ELSE Null
          [] baseType = 6 ->
                IF field.fieldSize >= 4 THEN Get(v, o, 4, getUint32(v, o, isLittleEndian)) ELSE Null
          [] baseType = 7 -> Null
          [] baseType = 8 ->
                IF field.fieldSize >= 4 THEN Get(v, o, 4, getFloat32(v, o, isLittleEndian)) ELSE Null
          [] baseType = 9 ->
                IF field.fieldSize >= 8 THEN Get(v, o, 8, getFloat64(v, o, isLittleEndian)) ELSE Null
          [] baseType = 10 -> Get(v, o, 1, getUint8(v, o))
          [] baseType = 11 ->
                IF field.fieldSize >= 2 THEN Get(v, o, 2, getUint16(v, o, isLittleEndian)) ELSE Null
          [] baseType = 12 ->
                IF field.fieldSize >= 4 THEN Get(v, o, 4, getUint32(v, o, isLittleEndian)) ELSE Null
          [] baseType \in {13, 14, 15, 16} -> Null
          [] OTHER -> Null

CatchNull_Zero(r) == IF r = RangeError THEN Num(0) ELSE r

\* catch { return null }
CatchNull(r) == IF r = RangeError THEN Null ELSE r

readFieldValue_AlwaysLittleEndian(v, o, field, isLittleEndian) ==
    CatchNull(FieldSwitch(v, o, field, TRUE))

\* a sint64 field read as the 32-bit integer at its offset
readFieldValue_Sint64AsInt32(v, o, field, isLittleEndian) ==
    IF field.baseType % 32 = 14
    THEN CatchNull(Get(v, o, 4, getInt32(v, o, isLittleEndian)))
    ELSE CatchNull(FieldSwitch(v, o, field, isLittleEndian))

\* try { switch } catch { return null }
readFieldValue(v, o, field, isLittleEndian) ==
    CatchNull(FieldSwitch(v, o, field, isLittleEndian))

\* Number.isFinite(f) && Math.abs(f) < 1e10 of the single with these bits:
\* the exponent is not 255, and the magnitude 2^(e-127) * (1 + m / 2^23) is below
\* 1e10 = 2^33 * 9765625 / 2^23.
ReasonableFloat32(f) ==
    LET e == f.lo \div 8388608
        m == f.lo % 8388608
    IN  e < 160 \/ (e = 160 /\ m < 1377017)

DevSwitch(v, o, devField, isLittleEndian) ==
    CASE devField.size = 1 -> Get(v, o, 1, getUint8(v, o))
      [] devField.size = 2 -> Get(v, o, 2, getUint16(v, o, isLittleEndian))
      [] devField.size = 4 ->
            IF ~InBounds(v, o, 4) THEN RangeError
            ELSE IF ReasonableFloat32(getFloat32(v, o, isLittleEndian))
            THEN getFloat32(v, o, isLittleEndian)
            ELSE getUint32(v, o, isLittleEndian)
      [] devField.size = 8 -> Get(v, o, 8, getFloat64(v, o, isLittleEndian))
      [] OTHER -> Null

readDevFieldValue(v, o, devField, isLittleEndian) ==
    CatchNull(DevSwitch(v, o, devField, isLittleEndian))

---------------------------------------------------------------------------
(* readDataMessage *)

RECURSIVE SizeSum(_, _)
\* sizes[1] + ... + sizes[n]
SizeSum(sizes, n) == IF n = 0 THEN 0 ELSE sizes[n] + SizeSum(sizes, n - 1)

EmptyMap == [x \in {} |-> 0]

\* `dev_${devDataIndex}_${fieldNum}`
GenericDevName(devField) ==
    "dev_" \o ToString(devField.devDataIndex) \o "_" \o ToString(devField.fieldNum)

\* `${devDataIndex}_${fieldNum}`, the key of this.developerFields
DevKey(devField) == ToString(devField.devDataIndex) \o "_" \o ToString(devField.fieldNum)

\* The name a developer value is stored under.  A description found in
\* developerFields carries fieldName and mappedName, the result of
\* findStrydFieldMapping ("" for null).  No code path fills developerFields
\* (handleFieldDescription is a stub), so the lookup misses in every run.
DevFieldName(devField, devTable) ==
    IF DevKey(devField) \in DOMAIN devTable
       /\ devTable[DevKey(devField)].fieldName # ""
       /\ devTable[DevKey(devField)].mappedName # ""
    THEN devTable[DevKey(devField)].mappedName
    ELSE GenericDevName(devField)

\* the byte offset of field i of a message whose first field byte is at off
FieldAt(off, def, i) ==
    off + SizeSum([j \in 1..Len(def.fields) |-> def.fields[j].fieldSize], i - 1)

\* the byte offset of developer field i
DevAt(off, def, i) ==
    FieldAt(off, def, Len(def.fields) + 1)
    + SizeSum([j \in 1..Len(def.devFields) |-> def.devFields[j].size], i - 1)

\* the values readFieldValue returns for the fields, in order
FieldValues(v, off, def) ==
    [i \in 1..Len(def.fields) |->
        readFieldValue(v, FieldAt(off, def, i), def.fields[i], def.isLittleEndian)]

\* the values readDevFieldValue returns for the developer fields, in order
DevValues(v, off, def) ==
    [i \in 1..Len(def.devFields) |->
        readDevFieldValue(v, DevAt(off, def, i), def.devFields[i], def.isLittleEndian)]

\* value !== null && value !== undefined
HasValue_Truthy(value) == value # Null /\ value # Num(0)
HasValue(value) == value # Null

\* The record built from the values: the assignments record[name] = value are
\* made in field order, standard fields first, a later one overwriting an
\* earlier one of the same name.
BuildRecord(def, values, devValues, devTable) ==
    LET fieldName(i) == RECORD_FIELDS(def.fields[i].fieldDefNum)
        devName(i) == DevFieldName(def.devFields[i], devTable)
        stdSet == {i \in 1..Len(def.fields) : def.globalMessageNumber = MSG_RECORD
                                              /\ fieldName(i) # "" /\ HasValue(values[i])}
        devSet == {i \in 1..Len(def.devFields) : HasValue(devValues[i])}
        lastStd(n) == CHOOSE i \in stdSet : fieldName(i) = n
                          /\ \A j \in stdSet : fieldName(j) = n => j <= i
        lastDev(n) == CHOOSE i \in devSet : devName(i) = n
                          /\ \A j \in devSet : devName(j) = n => j <= i
    IN  [messageType |-> def.globalMessageNumber,
         fields |-> [n \in {fieldName(i) : i \in stdSet} \cup {devName(i) : i \in devSet} |->
                        IF \E i \in devSet : devName(i) = n
                        THEN devValues[lastDev(n)]
                        ELSE values[lastStd(n)]]]

\* the cursor advancing only past the fields whose value decoded
DataResult_AdvanceDecodedOnly(off, def, values, devValues, devTable) ==
    [record |-> BuildRecord(def, values, devValues, devTable),
     offset |-> off
                + SizeSum([i \in 1..Len(def.fields) |->
                             IF values[i] = Null THEN 0 ELSE def.fields[i].fieldSize],
                          Len(def.fields))
                + SizeSum([i \in 1..Len(def.devFields) |->
                             IF devValues[i] = Null THEN 0 ELSE def.devFields[i].size],
                          Len(def.devFields)),
     reads |-> [i \in 1..Len(def.fields) |->
                  [field |-> def.fields[i], at |-> FieldAt(off, def, i),
                   isLittleEndian |-> def.isLittleEndian, value |-> values[i]]],
     devReads |-> [i \in 1..Len(def.devFields) |->
                     [devField |-> def.devFields[i], at |-> DevAt(off, def, i),
                      isLittleEndian |-> def.isLittleEndian, value |-> devValues[i]]]]

DataResult(off, def, values, devValues, devTable) ==
    [record |-> BuildRecord(def, values, devValues, devTable),
     offset |-> DevAt(off, def, Len(def.devFields) + 1),
     reads |-> [i \in 1..Len(def.fields) |->
                  [field |-> def.fields[i], at |-> FieldAt(off, def, i),
                   isLittleEndian |-> def.isLittleEndian, value |-> values[i]]],
     devReads |-> [i \in 1..Len(def.devFields) |->
                     [devField |-> def.devFields[i], at |-> DevAt(off, def, i),
                      isLittleEndian |-> def.isLittleEndian, value |-> devValues[i]]]]

\* The record, the cursor after the message and the reads made, for a data
\* message whose first field byte is at off.  Every field advances the cursor
\* by its declared size, whatever its value; neither reader throws.
readDataMessage(v, off, def, devTable) ==
    DataResult(off, def, FieldValues(v, off, def), DevValues(v, off, def), devTable)

---------------------------------------------------------------------------
(* readDefinitionMessage *)

\* n consecutive getUint8(this.offset++) from p fit in the buffer
BytesFit(v, p, n) == p + n <= byteLength(v)

\* this.offset when one of consecutive getUint8(this.offset++) from p throws:
\* the increment is made before the getter is called
ThrowAt(v, p) == Max(p, byteLength(v)) + 1

\* this.definitions.set(localMessageType, def): a prior entry is overwritten
\* the table replaced by one holding the new definition alone
SetDefinition_Alone(defs, localMessageType, def) == (localMessageType :> def)

SetDefinition_KeepFirst(defs, localMessageType, def) == defs @@ (localMessageType :> def)
SetDefinition(defs, localMessageType, def) == (localMessageType :> def) @@ defs

\* [threw, offset, definitions]: the definition table after the message, or the
\* cursor at the RangeError that ends it.  off is the byte after the header.
readDefinitionMessage(v, off, defs, localMessageType, hasDeveloperData) ==
    LET pArch == off + 1                       \* this.offset++ (reserved byte)
        pGlobal == pArch + 1
        pNumFields == pGlobal + 2
        pFields == pNumFields + 1
        isLittleEndian == ByteAt(v, pArch) = 0
        numFields == ByteAt(v, pNumFields)
        pNumDev == pFields + 3 * numFields
        numDevFields == IF hasDeveloperData THEN ByteAt(v, pNumDev) ELSE 0
        pDev == pNumDev + 1
        fields == [i \in 1..numFields |->
                     [fieldDefNum |-> ByteAt(v, pFields + 3 * (i - 1)),
                      fieldSize |-> ByteAt(v, pFields + 3 * (i - 1) + 1),
                      baseType |-> ByteAt(v, pFields + 3 * (i - 1) + 2)]]
        devFields == [i \in 1..numDevFields |->
                        [fieldNum |-> ByteAt(v, pDev + 3 * (i - 1)),
                         size |-> ByteAt(v, pDev + 3 * (i - 1) + 1),
                         devDataIndex |-> ByteAt(v, pDev + 3 * (i - 1) + 2)]]
        messageSize == SizeSum([i \in 1..numFields |-> fields[i].fieldSize], numFields)
                       + SizeSum([i \in 1..numDevFields |-> devFields[i].size], numDevFields)
        throw(o) == [threw |-> TRUE, offset |-> o, definitions |-> defs]
    IN  IF ~InBounds(v, pArch, 1) THEN throw(pArch + 1)
        ELSE IF ~InBounds(v, pGlobal, 2) THEN throw(pGlobal)
        ELSE IF ~InBounds(v, pNumFields, 1) THEN throw(pNumFields + 1)
        ELSE IF ~BytesFit(v, pFields, 3 * numFields) THEN throw(ThrowAt(v, pFields))
        ELSE IF hasDeveloperData /\ ~InBounds(v, pNumDev, 1) THEN throw(pNumDev + 1)
        ELSE IF hasDeveloperData /\ ~BytesFit(v, pDev, 3 * numDevFields)
        THEN throw(ThrowAt(v, pDev))
        ELSE [threw |-> FALSE,
              offset |-> IF hasDeveloperData THEN pDev + 3 * numDevFields ELSE pNumDev,
              definitions |->
                 SetDefinition(defs, localMessageType,
                    [globalMessageNumber |-> getUint16(v, pGlobal, isLittleEndian).lo,
                     fields |-> fields,
                     devFields |-> devFields,
                     size |-> messageSize,
                     isLittleEndian |-> isLittleEndian])]

---------------------------------------------------------------------------
(* readMessage *)

IsCompressed_Never(recordHeader) == FALSE

\* the header byte's parts
IsCompressed(recordHeader) == (recordHeader \div FIT_COMPRESSED_TIMESTAMP) % 2 = 1
IsDefinition(recordHeader) == (recordHeader \div FIT_MESSAGE_TYPE_DEFINITION) % 2 = 1
HasDeveloperData(recordHeader) == (recordHeader \div FIT_MESSAGE_TYPE_DEV_FIELDS) % 2 = 1
LocalMessageType_LowNibble(recordHeader) == recordHeader % 16

\* (recordHeader >> 5) & 0x03 for a compressed header, recordHeader & 0x0F otherwise
LocalMessageType(recordHeader) ==
    IF IsCompressed(recordHeader) THEN (recordHeader \div 32) % 4 ELSE recordHeader % 16

\* A result of readMessage: result is <<>> for null and <<record>> for a record;
\* kind names the path taken: "end" (cursor at or past byteLength), "nodef" (data
\* header of a local type without definition), "definition", "data", and
\* "throw" when readDefinitionMessage threw.
Outcome(kind, threw, off, defs, result, local, reads, devReads) ==
    [kind |-> kind, threw |-> threw, offset |-> off, definitions |-> defs,
     result |-> result, local |-> local, reads |-> reads, devReads |-> devReads]

DataOutcome(data, defs, localMessageType) ==
    Outcome("data", FALSE, data.offset, defs, <<data.record>>, localMessageType,
            data.reads, data.devReads)

DefinitionOutcome(defn, localMessageType) ==
    Outcome(IF defn.threw THEN "throw" ELSE "definition", defn.threw, defn.offset,
            defn.definitions, <<>>, localMessageType, <<>>, <<>>)

\* the message whose header byte recordHeader was read at off
Dispatch(v, off, defs, devTable, recordHeader) ==
    IF ~IsCompressed(recordHeader) /\ IsDefinition(recordHeader)
    THEN DefinitionOutcome(
             readDefinitionMessage(v, off + 1, defs, LocalMessageType(recordHeader),
                                   HasDeveloperData(recordHeader)),
             LocalMessageType(recordHeader))
    ELSE IF LocalMessageType(recordHeader) \in DOMAIN defs
    THEN DataOutcome(
             readDataMessage(v, off + 1, defs[LocalMessageType(recordHeader)], devTable),
             defs, LocalMessageType(recordHeader))
    ELSE Outcome("nodef", FALSE, off + 1, defs, <<>>, LocalMessageType(recordHeader),
                 <<>>, <<>>)

readMessage(v, off, defs, devTable) ==
    IF off >= byteLength(v)
    THEN Outcome("end", FALSE, off, defs, <<>>, -1, <<>>, <<>>)
    ELSE Dispatch(v, off, defs, devTable, ByteAt(v, off))

---------------------------------------------------------------------------
(* parse *)

Catch_Rethrow(r) == r

\* catch (e) { this.offset++ }: the state the loop continues from
Catch(r) == [r EXCEPT !.threw = FALSE, !.offset = r.offset + 1, !.result = <<>>]

TryCatch(r) == IF r.threw THEN Catch(r) ELSE r

\* one iteration of the while loop: try { readMessage } catch { offset++ }
LoopBody(v, off, defs, devTable) == TryCatch(readMessage(v, off, defs, devTable))

\* every message that decoded is pushed
Push_AnyMessage(recs, result) == IF result # <<>> THEN Append(recs, result[1]) ELSE recs

\* a record put in front of the ones already returned
Push_Prepend(recs, result) ==
    IF result # <<>> /\ result[1].messageType = MSG_RECORD
    THEN <<result[1]>> \o recs
    ELSE recs

\* if (result && result.messageType === MSG_RECORD) records.push(result)
Push(recs, result) ==
    IF result # <<>> /\ result[1].messageType = MSG_RECORD
    THEN Append(recs, result[1])
    ELSE recs

NoStep == [kind |-> "none", start |-> 0, local |-> -1, reads |-> <<>>, devReads |-> <<>>]

\* readHeader returned null: throw new Error('Invalid FIT file header')
ParseInvalidHeader ==
    /\ pc = "start"
    /\ ~readHeader(view).ok
    /\ pc' = "threw"
    /\ UNCHANGED <<view, offset, definitions, developerFields, endOffset, records, last>>
    /\ UNCHANGED <<twoVars, processVars, againVars, loadVars>>

\* the header is valid: set the cursor and the end of the stream
ParseBegin ==
    /\ pc = "start"
    /\ \E header \in {readHeader(view)} :
          /\ header.ok
          /\ offset' = header.headerSize
          /\ endOffset' = header.headerSize + header.dataSize
    /\ records' = <<>>
    /\ pc' = "loop"
    /\ UNCHANGED <<view, definitions, developerFields, last>>
    /\ UNCHANGED <<twoVars, processVars, againVars, loadVars>>

\* one iteration of while (this.offset < endOffset)
ParseLoop ==
    /\ pc = "loop"
    /\ offset < endOffset
    /\ \E r \in {LoopBody(view, offset, definitions, developerFields)} :
           /\ pc' = IF r.threw THEN "threw" ELSE "loop"
           /\ offset' = r.offset
           /\ definitions' = r.definitions
           /\ records' = Push(records, r.result)
           /\ last' = [kind |-> r.kind, start |-> offset, local |-> r.local,
                       reads |-> r.reads, devReads |-> r.devReads]
    /\ UNCHANGED <<view, developerFields, endOffset>>
    /\ UNCHANGED <<twoVars, processVars, againVars, loadVars>>

\* the loop condition fails: return records
ParseReturn ==
    /\ pc = "loop"
    /\ offset >= endOffset
    /\ pc' = "done"
    /\ UNCHANGED <<view, offset, definitions, developerFields, endOffset, records, last>>
    /\ UNCHANGED <<twoVars, processVars, againVars, loadVars>>

\* the largest number of calls of parse() on one instance
MaxCalls == 2

\* parse() is called again on the instance after it returned: the fields keep
\* what the call before left in them, the caller keeps the first result
ParseAgain ==
    /\ pc = "done"
    /\ calls < MaxCalls
    /\ calls' = calls + 1
    /\ firstRecords' = IF calls = 1 THEN records ELSE firstRecords
    /\ pc' = "start"
    /\ last' = NoStep
    /\ UNCHANGED <<view, offset, definitions, developerFields, endOffset, records>>
    /\ UNCHANGED <<twoVars, processVars, loadVars>>

---------------------------------------------------------------------------
(* JavaScript numbers                                                        *)
(*                                                                           *)
(* A number of the record processor is an IEEE-754 double, kept as sign,     *)
(* 53-bit integer mantissa and exponent: the value is (-1)^neg * M * 2^e     *)
(* with M = hi * 2^27 + lo and 2^52 <= M < 2^53, or zero (hi = lo = e = 0).  *)
(* Division and multiplication round to nearest, ties to even, as the        *)
(* operators / and * of the source do.  Every value of these runs is a       *)
(* normal double: no overflow, underflow, infinity or NaN arises.            *)

\* 2^27, the weight of the high limb
W == 134217728

Dbl(neg, hi, lo, e) == [k |-> "dbl", neg |-> neg, hi |-> hi, lo |-> lo, e |-> e]

Zero == Dbl(FALSE, 0, 0, 0)

\* undefined (a property the record does not have) and null
Undefined == [k |-> "undefined", neg |-> FALSE, hi |-> 0, lo |-> 0, e |-> 0]
NullD == [k |-> "null", neg |-> FALSE, hi |-> 0, lo |-> 0, e |-> 0]

IsNumber(x) == x.k = "dbl"

\* two-limb naturals <<hi, lo>> with lo < 2^27
Twice(p, bit) == <<2 * p[1] + (2 * p[2] + bit) \div W, (2 * p[2] + bit) % W>>
GeqP(p, q) == p[1] > q[1] \/ (p[1] = q[1] /\ p[2] >= q[2])
SubP(p, q) == IF p[2] >= q[2] THEN <<p[1] - q[1], p[2] - q[2]>>
              ELSE <<p[1] - q[1] - 1, p[2] + W - q[2]>>
IncP(p) == IF p[2] + 1 = W THEN <<p[1] + 1, 0>> ELSE <<p[1], p[2] + 1>>

RECURSIVE NormUp(_, _, _)
\* the double of the non-zero natural p * 2^e, p below 2^53
NormUp(neg, p, e) ==
    IF p[1] >= 33554432 THEN Dbl(neg, p[1], p[2], e) ELSE NormUp(neg, Twice(p, 0), e - 1)

\* the double of the integer n, |n| < 2^31
FromInt(n) ==
    IF n = 0 THEN Zero
    ELSE IF n > 0 THEN NormUp(FALSE, <<n \div W, n % W>>, 0)
    ELSE NormUp(TRUE, <<(-n) \div W, (-n) % W>>, 0)

\* Round q * 2^e to a double, q a natural of 55 or 56 bits; sticky tells that
\* the exact value lies above q * 2^e.  Nearest, ties to even.
RoundQ(neg, q, sticky, e) ==
    LET t == IF q[1] >= 268435456 THEN 3 ELSE 2
        d == IF t = 3 THEN 8 ELSE 4
        rem == q[2] % d
        mant == <<q[1] \div d, (q[1] % d) * (W \div d) + q[2] \div d>>
        up == rem > d \div 2 \/ (rem = d \div 2 /\ (sticky \/ mant[2] % 2 = 1))
        m == IF up THEN IncP(mant) ELSE mant
    IN  IF m[1] = 67108864 THEN Dbl(neg, 33554432, 0, e + t + 1)
        ELSE Dbl(neg, m[1], m[2], e + t)

RECURSIVE DivSteps(_, _, _, _)
\* n more bits of the long division of rem by b: <<quotient, remainder>>
DivSteps(q, rem, b, n) ==
    IF n = 0 \/ q[1] < 0 THEN <<q, rem>>
    ELSE IF GeqP(Twice(rem, 0), b)
    THEN DivSteps(Twice(q, 1), SubP(Twice(rem, 0), b), b, n - 1)
    ELSE DivSteps(Twice(q, 0), Twice(rem, 0), b, n - 1)

DivRound(neg, qr, e) == RoundQ(neg, qr[1], qr[2] # <<0, 0>>, e)

\* x / y of two numbers already evaluated, y not zero
DivValues(x, y) ==
    IF x = Zero THEN Zero
    ELSE IF GeqP(<<x.hi, x.lo>>, <<y.hi, y.lo>>)
    THEN DivRound(x.neg # y.neg,
                  DivSteps(<<0, 1>>, SubP(<<x.hi, x.lo>>, <<y.hi, y.lo>>), <<y.hi, y.lo>>, 55),
                  x.e - y.e - 55)
    ELSE DivRound(x.neg # y.neg,
                  DivSteps(<<0, 0>>, <<x.hi, x.lo>>, <<y.hi, y.lo>>, 55),
                  x.e - y.e - 55)

\* four-limb naturals <<l3, l2, l1, l0>>, limbs below 2^27
Twice4(a) ==
    <<2 * a[1] + (2 * a[2] + (2 * a[3] + (2 * a[4]) \div W) \div W) \div W,
      (2 * a[2] + (2 * a[3] + (2 * a[4]) \div W) \div W) % W,
      (2 * a[3] + (2 * a[4]) \div W) % W,
      (2 * a[4]) % W>>

Add4(a, p) ==
    <<a[1] + (a[2] + (a[3] + p[1] + (a[4] + p[2]) \div W) \div W) \div W,
      (a[2] + (a[3] + p[1] + (a[4] + p[2]) \div W) \div W) % W,
      (a[3] + p[1] + (a[4] + p[2]) \div W) % W,
      (a[4] + p[2]) % W>>

\* bit i (0 the lowest) of the two-limb natural p
BitOf(p, i) == IF i >= 27 THEN (p[1] \div (2 ^ (i - 27))) % 2 ELSE (p[2] \div (2 ^ i)) % 2

RECURSIVE MulSteps(_, _, _, _)
\* shift-and-add over the bits i, i-1, ..., 0 of q
MulSteps(acc, p, q, i) ==
    IF i < 0 \/ acc[1] < 0 THEN acc
    ELSE IF BitOf(q, i) = 1 THEN MulSteps(Add4(Twice4(acc), p), p, q, i - 1)
    ELSE MulSteps(Twice4(acc), p, q, i - 1)

\* the product a of two mantissas, rounded: its top bits, and the rest as sticky
MulRound(neg, a, e) ==
    RoundQ(neg,
           <<a[1] * 16 + a[2] \div 8388608, (a[2] % 8388608) * 16 + a[3] \div 8388608>>,
           a[3] % 8388608 # 0 \/ a[4] # 0,
           e + 50)

\* x / y: the operands are evaluated, then divided
FDiv(x, y) == CHOOSE r \in {DivValues(a, b) : a \in {x}, b \in {y}} : TRUE

MulValues(x, y) ==
    IF x = Zero \/ y = Zero THEN Zero
    ELSE MulRound(x.neg # y.neg,
                  MulSteps(<<0, 0, 0, 0>>, <<x.hi, x.lo>>, <<y.hi, y.lo>>, 52),
                  x.e + y.e)

\* x * y: the operands are evaluated, then multiplied
FMul(x, y) == CHOOSE r \in {MulValues(a, b) : a \in {x}, b \in {y}} : TRUE

RECURSIVE Shift4(_, _)
\* the four-limb natural a * 2^n
Shift4(a, n) == IF n = 0 \/ a[1] < 0 THEN a ELSE Shift4(Twice4(a), n - 1)

RECURSIVE Norm4(_, _)
\* the non-zero four-limb natural a * 2^e with its top bit moved to bit 107
Norm4(a, e) == IF a[1] >= 67108864 THEN <<a, e>> ELSE Norm4(Twice4(a), e - 1)

\* a sum a[1] * 2^a[2] rounded: its top 56 bits, and the rest as sticky
AddRound(neg, a) ==
    RoundQ(neg,
           <<a[1][1] * 4 + a[1][2] \div 33554432, (a[1][2] % 33554432) * 4 + a[1][3] \div 33554432>>,
           a[1][3] % 33554432 # 0 \/ a[1][4] # 0,
           a[2] + 52)

\* big + small of two non-zero numbers of the same sign, big.e >= small.e
AddAligned(big, small) ==
    IF big.e - small.e >= 54 THEN big
    ELSE AddRound(big.neg,
                  Norm4(Add4(Shift4(<<0, 0, big.hi, big.lo>>, big.e - small.e),
                             <<small.hi, small.lo>>),
                        small.e))

\* x + y of two numbers of the same sign, already evaluated
AddValues(x, y) ==
    IF x = Zero THEN y
    ELSE IF y = Zero THEN x
    ELSE IF x.e >= y.e THEN AddAligned(x, y)
    ELSE AddAligned(y, x)

\* x + y: the operands are evaluated, then added
FAdd(x, y) == CHOOSE r \in {AddValues(a, b) : a \in {x}, b \in {y}} : TRUE

\* x < y
FLt(x, y) ==
    LET key(z) == <<z.e, z.hi, z.lo>>
        below(a, b) == \/ a[1] < b[1]
                       \/ a[1] = b[1] /\ a[2] < b[2]
                       \/ a[1] = b[1] /\ a[2] = b[2] /\ a[3] < b[3]
    IN  IF x = Zero THEN y # Zero /\ ~y.neg
        ELSE IF y = Zero THEN x.neg
        ELSE IF x.neg # y.neg THEN x.neg
        ELSE IF x.neg THEN below(key(y), key(x))
        ELSE below(key(x), key(y))

FLe(x, y) == x = y \/ FLt(x, y)
FGt(x, y) == FLt(y, x)
FGe(x, y) == FLe(y, x)

---------------------------------------------------------------------------
(* processRecords (lib/data-processor.ts)                                    *)
(*                                                                           *)
(* A FITRecord is a function from property names to the raw integers the     *)
(* decoder stored; a property the record does not have is outside its        *)
(* domain.  A point carries idx, timestamp, distance, speed, gct, vo, sl,    *)
(* vr, gctBalance and hr; its other properties (pace, cadence, power and     *)
(* the Stryd metrics) are not represented.                                   *)

\* r[name] as a number, or undefined
Prop(r, name) == IF name \in DOMAIN r THEN FromInt(r[name]) ELSE Undefined

\* a ?? b
Coalesce(a, b) == IF a = NullD \/ a = Undefined THEN b ELSE a

\* 0.5
Half == Dbl(FALSE, 33554432, 0, -53)

\* raw > 100 ? raw / 1000 : raw
ScaleSpeed(raw) == IF FGt(raw, FromInt(100)) THEN FDiv(raw, FromInt(1000)) ELSE raw

getSpeedMs(r) ==
    IF Prop(r, "enhanced_speed") # Undefined /\ FGt(Prop(r, "enhanced_speed"), Zero)
    THEN ScaleSpeed(Prop(r, "enhanced_speed"))
    ELSE IF Prop(r, "speed") # Undefined /\ FGt(Prop(r, "speed"), Zero)
    THEN ScaleSpeed(Prop(r, "speed"))
    ELSE Zero

getDistanceKm_Metres(rawDistance) ==
    IF rawDistance = Undefined \/ rawDistance = Zero THEN NullD
    ELSE FDiv(rawDistance, FromInt(100))

\* rawDistance / 100 / 1000
getDistanceKm(rawDistance) ==
    IF rawDistance = Undefined \/ rawDistance = Zero THEN NullD
    ELSE FDiv(FDiv(rawDistance, FromInt(100)), FromInt(1000))

\* gctMs >= 150 && gctMs <= 400 ? gctMs : null
GctGate_Open(gctMs) == gctMs
GctGate(gctMs) ==
    IF FGe(gctMs, FromInt(150)) /\ FLe(gctMs, FromInt(400)) THEN gctMs ELSE NullD

getGctMs(rawGct) ==
    IF rawGct = Undefined \/ rawGct = Zero THEN NullD ELSE GctGate(FDiv(rawGct, FromInt(10)))

\* the raw value divided by 1000
getVOCm_Thousandth(rawVO) ==
    IF rawVO = Undefined \/ rawVO = Zero THEN NullD ELSE FDiv(rawVO, FromInt(1000))

\* rawVO / 100
getVOCm(rawVO) ==
    IF rawVO = Undefined \/ rawVO = Zero THEN NullD ELSE FDiv(rawVO, FromInt(100))

\* rawSL / 10
getStepLengthMm(rawSL) ==
    IF rawSL = Undefined \/ rawSL = Zero THEN NullD ELSE FDiv(rawSL, FromInt(10))

\* rawVR / 100
getVerticalRatioPercent(rawVR) ==
    IF rawVR = Undefined \/ rawVR = Zero THEN NullD ELSE FDiv(rawVR, FromInt(100))

\* rawBalance / 100
getStanceTimeBalancePercent(rawBalance) ==
    IF rawBalance = Undefined \/ rawBalance = Zero THEN NullD
    ELSE FDiv(rawBalance, FromInt(100))

\* if (vr === null && vo !== null && sl !== null && sl > 0) vr = ((vo * 10) / sl) * 100
VerticalRatio(vr, vo, sl) ==
    IF vr = NullD /\ vo # NullD /\ sl # NullD /\ FGt(sl, Zero)
    THEN FMul(FDiv(FMul(vo, FromInt(10)), sl), FromInt(100))
    ELSE vr

\* the filter callback: getSpeedMs(r) > 0.5
Keep_AnySpeed(r) == FGt(getSpeedMs(r), Zero)
Keep(r) == FGt(getSpeedMs(r), Half)

\* records.filter(...)
Filter(recs) == SelectSeq(recs, Keep)

\* the developer values of a record in the order of its keys dev_<devIndex>_<fieldNum>:
\* each entry is [devIndex, fieldNum, val]
DevOf(r) == IF "dev" \in DOMAIN r THEN r["dev"] ELSE <<>>

\* NaN and Infinity, the numbers that are not finite
NaN == [k |-> "nan", neg |-> FALSE, hi |-> 0, lo |-> 0, e |-> 0]
Infinity == [k |-> "inf", neg |-> FALSE, hi |-> 0, lo |-> 0, e |-> 0]

\* val >= lo && val <= hi
InRange(val, lo, hi) == FGe(val, lo) /\ FLe(val, hi)

\* key.endsWith('_' + n): the key is dev_<devIndex>_<fieldNum> and a decimal
\* number holds no '_', so the suffix is the whole field number
EndsWith(entry, n) == entry.fieldNum = n

\* 0.05
Twentieth == FDiv(FromInt(1), FromInt(20))

\* the rules applied to any slot whose value is in range
DevStep_AnySlot(st, entry) ==
    IF ~IsNumber(entry.val) \/ entry.val = Zero THEN st
    ELSE IF st.strydPower = NullD /\ InRange(entry.val, FromInt(50), FromInt(800))
    THEN [st EXCEPT !.strydPower = entry.val]
    ELSE IF st.formPower = NullD /\ InRange(entry.val, FromInt(30), FromInt(120))
    THEN [st EXCEPT !.formPower = entry.val]
    ELSE IF st.lss = NullD /\ InRange(entry.val, FromInt(4), FromInt(25))
    THEN [st EXCEPT !.lss = entry.val]
    ELSE IF st.airPower = NullD /\ InRange(entry.val, Twentieth, FromInt(15))
    THEN [st EXCEPT !.airPower = entry.val]
    ELSE IF st.impactGs = NullD /\ InRange(entry.val, FromInt(5), FromInt(60))
    THEN [st EXCEPT !.impactGs = entry.val]
    ELSE st

\* one iteration of for (const key of Object.keys(r)) on a key dev_...
DevStep(st, entry) ==
    IF ~IsNumber(entry.val) \/ entry.val = Zero THEN st
    ELSE IF st.strydPower = NullD /\ InRange(entry.val, FromInt(50), FromInt(800))
            /\ EndsWith(entry, 0)
    THEN [st EXCEPT !.strydPower = entry.val]
    ELSE IF st.formPower = NullD /\ InRange(entry.val, FromInt(30), FromInt(120))
            /\ EndsWith(entry, 8)
    THEN [st EXCEPT !.formPower = entry.val]
    ELSE IF st.lss = NullD /\ InRange(entry.val, FromInt(4), FromInt(25))
            /\ (EndsWith(entry, 9) \/ EndsWith(entry, 3))
    THEN [st EXCEPT !.lss = entry.val]
    ELSE IF st.airPower = NullD /\ InRange(entry.val, Twentieth, FromInt(15))
            /\ (EndsWith(entry, 5) \/ EndsWith(entry, 7))
    THEN [st EXCEPT !.airPower = entry.val]
    ELSE IF st.impactGs = NullD /\ InRange(entry.val, FromInt(5), FromInt(60))
            /\ EndsWith(entry, 11)
    THEN [st EXCEPT !.impactGs = entry.val]
    ELSE st

RECURSIVE DevScan(_, _)
\* the loop over the keys that are left
DevScan(st, entries) ==
    IF entries = <<>> \/ st.strydPower = Undefined THEN st
    ELSE DevScan(DevStep(st, Head(entries)), Tail(entries))

\* strydPower, formPower, lss, airPower and impactGs after the scan
DevResult(r) ==
    DevScan([strydPower |-> NullD,
             formPower |-> Coalesce(Prop(r, "form_power"), NullD),
             lss |-> Coalesce(Prop(r, "leg_spring_stiffness"), NullD),
             airPower |-> Coalesce(Prop(r, "air_power"), NullD),
             impactGs |-> NullD],
            DevOf(r))

\* the native power behind the developer power
Power_NativeFirst(r, strydPower) ==
    Coalesce(Coalesce(Coalesce(Prop(r, "power"), Prop(r, "stryd_power")), strydPower), NullD)

\* strydPower ?? r.stryd_power ?? r.power ?? null
Power(r, strydPower) ==
    Coalesce(Coalesce(Coalesce(strydPower, Prop(r, "stryd_power")), Prop(r, "power")), NullD)

\* (power !== null && formPower !== null && power > 0) ? (formPower / power) * 100 : null
FormPowerRatio(power, formPower) ==
    IF power # NullD /\ formPower # NullD /\ FGt(power, Zero)
    THEN FMul(FDiv(formPower, power), FromInt(100))
    ELSE NullD

\* a cadence of 0 doubled like any other
Cadence_ZeroKept(r) ==
    IF Prop(r, "cadence") # Undefined
    THEN FMul(FAdd(Prop(r, "cadence"),
                   FDiv(Coalesce(Prop(r, "fractional_cadence"), Zero), FromInt(128))),
              FromInt(2))
    ELSE NullD

\* r.cadence ? (r.cadence + (r.fractional_cadence ?? 0) / 128) * 2 : null
Cadence(r) ==
    IF Prop(r, "cadence") # Undefined /\ Prop(r, "cadence") # Zero
    THEN FMul(FAdd(Prop(r, "cadence"),
                   FDiv(Coalesce(Prop(r, "fractional_cadence"), Zero), FromInt(128))),
              FromInt(2))
    ELSE NullD

\* speed > 0 ? 1000 / (speed * 60) : null
Pace(speed) ==
    IF FGt(speed, Zero) THEN FDiv(FromInt(1000), FMul(speed, FromInt(60))) ELSE NullD

\* r.enhanced_altitude ?? r.altitude ?? r.elevation ?? null
Altitude(r) ==
    Coalesce(Coalesce(Coalesce(Prop(r, "enhanced_altitude"), Prop(r, "altitude")),
                      Prop(r, "elevation")), NullD)

\* the object the map callback returns, and lastValidDistance after it
MapResult(r, idx, distanceKm, vo, sl, lastValid, speed, dev, power) ==
    [point |->
        [idx |-> idx,
         timestamp |-> Coalesce(Prop(r, "timestamp"), FromInt(idx)),
         distance |-> Coalesce(distanceKm, lastValid),
         speed |-> speed,
         pace |-> Pace(speed),
         gct |-> Coalesce(Coalesce(getGctMs(Prop(r, "stance_time")),
                                   getGctMs(Prop(r, "ground_time"))), Zero),
         vo |-> vo,
         sl |-> sl,
         cadence |-> Cadence(r),
         vr |-> VerticalRatio(Coalesce(getVerticalRatioPercent(Prop(r, "vertical_ratio")),
                                       getVerticalRatioPercent(Prop(r, "vertical_ratio_alt"))),
                              vo, sl),
         gctBalance |-> Coalesce(getStanceTimeBalancePercent(Prop(r, "stance_time_balance")),
                                 getStanceTimeBalancePercent(Prop(r, "stance_time_balance_alt"))),
         hr |-> Coalesce(Prop(r, "heart_rate"), NullD),
         power |-> power,
         formPower |-> dev.formPower,
         formPowerRatio |-> FormPowerRatio(power, dev.formPower),
         lss |-> dev.lss,
         airPower |-> dev.airPower,
         altitude |-> Altitude(r),
         impactLoadingRate |-> Coalesce(Prop(r, "impact_loading_rate"), NullD),
         brakingImpulse |-> Coalesce(Prop(r, "braking_impulse"), NullD),
         impactGs |-> dev.impactGs],
     lastValidDistance |-> IF distanceKm # NullD THEN distanceKm ELSE lastValid]

\* the map callback after the scan of the developer fields
MapScanned(r, idx, lastValid, dev) ==
    MapResult(r, idx,
              getDistanceKm(Prop(r, "distance")),
              Coalesce(Coalesce(getVOCm(Prop(r, "vertical_oscillation")),
                                Prop(r, "vertical_oscillation_stryd")), NullD),
              Coalesce(getStepLengthMm(Prop(r, "step_length")),
                       getStepLengthMm(Prop(r, "step_length_alt"))),
              lastValid,
              getSpeedMs(r),
              dev,
              Power(r, dev.strydPower))

\* the map callback applied to record r at index idx of the filtered array
MapPoint(r, idx, lastValid) == MapScanned(r, idx, lastValid, DevResult(r))

RECURSIVE MapAll(_, _, _), MapAllNext(_, _, _)
\* .map(...) over the filtered array from position Len(acc) + 1 on
MapAll(recs, lastValid, acc) ==
    IF Len(acc) >= Len(recs) THEN acc
    ELSE MapAllNext(recs, acc, MapPoint(recs[Len(acc) + 1], Len(acc), lastValid))

\* the callback's point appended, and the scan continued
MapAllNext(recs, acc, m) == MapAll(recs, m.lastValidDistance, Append(acc, m.point))

\* processRecords(records), from call to return
processRecords(recs) == MapAll(Filter(recs), Zero, <<>>)

\* records.filter(...) has run
ProcessFilter ==
    /\ ppc = "filter"
    /\ kept' = Filter(input)
    /\ points' = <<>>
    /\ ppc' = "map"
    /\ UNCHANGED <<input, lastValidDistance>>
    /\ UNCHANGED <<parserVars, twoVars, againVars, loadVars>>

\* .map(...) calls its callback on the next element of the filtered array
ProcessMap ==
    /\ ppc = "map"
    /\ Len(points) < Len(kept)
    /\ \E m \in {MapPoint(kept[Len(points) + 1], Len(points), lastValidDistance)} :
          /\ points' = Append(points, m.point)
          /\ lastValidDistance' = m.lastValidDistance
    /\ UNCHANGED <<input, kept, ppc>>
    /\ UNCHANGED <<parserVars, twoVars, againVars, loadVars>>

\* .map(...) has gone through the filtered array: the points are returned
ProcessReturn ==
    /\ ppc = "map"
    /\ Len(points) = Len(kept)
    /\ ppc' = "returned"
    /\ UNCHANGED <<input, kept, lastValidDistance, points>>
    /\ UNCHANGED <<parserVars, twoVars, againVars, loadVars>>

\* the raw integer of a decoded value (the integer base types below 2^31)
RawOf(value) == CASE value.k = "num" /\ value.hi = 0 -> value.lo

\* the FITRecord object readDataMessage built: messageType and the fields
RawRecord(rec) ==
    [n \in DOMAIN rec.fields \cup {"messageType"} |->
        IF n = "messageType" THEN rec.messageType ELSE RawOf(rec.fields[n])]

\* records = await parseFITFile(arrayBuffer); processed = processRecords(records)
CallProcessRecords ==
    /\ pc = "done"
    /\ ppc = "idle"
    /\ input' = [i \in 1..Len(records) |-> RawRecord(records[i])]
    /\ lastValidDistance' = Zero
    /\ ppc' = "filter"
    /\ UNCHANGED <<kept, points>>
    /\ UNCHANGED <<parserVars, twoVars, againVars, loadVars>>

---------------------------------------------------------------------------
(* App (App.tsx): the state of the component and handleFileSelect *)

\* useState initial values: data, fullProcessedData, error and fileName are
\* null, loading is false
Mounted ==
    [data |-> "null", fullProcessedData |-> "null", loading |-> FALSE, error |-> "null",
     fileName |-> "null"]

\* The files the user selects.  What a file's bytes hold decides whether the
\* try block of handleFileSelect runs to its end (ok) or throws; the points,
\* the metrics and the error message are those of that file.
ChosenFiles ==
    {[name |-> "a.fit", ok |-> TRUE], [name |-> "b.fit", ok |-> TRUE],
     [name |-> "c.fit", ok |-> FALSE]}

\* processRecords(records), calculateMetrics(processed) and e.message for a file
ProcessedOf(file) == "points of " \o file.name
MetricsOf(file) == "metrics of " \o file.name
ErrorOf(file) == "error of " \o file.name

\* the largest number of invocations of handleFileSelect
MaxLoads == 2

\* handleFileSelect(file) up to its first await: the setters, then
\* file.arrayBuffer() is pending
handleFileSelect(file) ==
    /\ Len(loads) < MaxLoads
    /\ ui' = [ui EXCEPT !.loading = TRUE, !.error = "null", !.fileName = file.name,
                        !.fullProcessedData = "null"]
    /\ loads' = Append(loads, [file |-> file, at |-> "arrayBuffer"])
    /\ UNCHANGED <<parserVars, twoVars, processVars, againVars>>

\* FileUpload: the input's onChange; the input is disabled while loading
HandleChange == \E file \in ChosenFiles : ~ui.loading /\ handleFileSelect(file)

\* FileUpload: a file dropped on the drop zone, whatever loading is
HandleDrop == \E file \in ChosenFiles : handleFileSelect(file)

\* await file.arrayBuffer() resumes: parseFITFile is called and awaited
ArrayBufferResolved(i) ==
    /\ loads[i].at = "arrayBuffer"
    /\ loads' = [loads EXCEPT ![i].at = "parseFITFile"]
    /\ UNCHANGED ui
    /\ UNCHANGED <<parserVars, twoVars, processVars, againVars>>

\* the state after the rest of the try block, or after the catch block, and
\* after finally
Settled(state, file) ==
    IF file.ok
    THEN [state EXCEPT !.fullProcessedData = ProcessedOf(file), !.data = MetricsOf(file),
                       !.loading = FALSE]
    ELSE [state EXCEPT !.error = ErrorOf(file), !.data = "null",
                       !.fullProcessedData = "null", !.loading = FALSE]

\* await parseFITFile(arrayBuffer) resumes: the rest of the try block runs, or
\* the catch block, then finally
ParseResolved(i) ==
    /\ loads[i].at = "parseFITFile"
    /\ ui' = Settled(ui, loads[i].file)
    /\ loads' = [loads EXCEPT ![i].at = "finished"]
    /\ UNCHANGED <<parserVars, twoVars, processVars, againVars>>

---------------------------------------------------------------------------
(* Two FITParser instances.  parseFITFile makes a new FITParser for each   *)
(* buffer; the fields of the class are instance fields, each initialised   *)
(* by the constructor, so each instance has its own cursor and tables.     *)
(* The steps of the two parses are interleaved in every order.             *)

\* new FITParser(buffer)
NewParser(buffer) ==
    [view |-> buffer, offset |-> 0, definitions |-> EmptyMap, developerFields |-> EmptyMap,
     endOffset |-> 0, records |-> <<>>, pc |-> "start"]

\* a definition table read through another instance
DefinitionsOf_Shared(ps, i) == ps[1].definitions

\* this.definitions of instance i
DefinitionsOf(ps, i) == ps[i].definitions

TwoParseInvalidHeader(i) ==
    /\ parsers[i].pc = "start"
    /\ ~readHeader(parsers[i].view).ok
    /\ parsers' = [parsers EXCEPT ![i].pc = "threw"]
    /\ UNCHANGED <<parserVars, processVars, againVars, loadVars>>

TwoParseBegin(i) ==
    /\ parsers[i].pc = "start"
    /\ \E header \in {readHeader(parsers[i].view)} :
          /\ header.ok
          /\ parsers' = [parsers EXCEPT ![i].offset = header.headerSize,
                                        ![i].endOffset = header.headerSize + header.dataSize,
                                        ![i].records = <<>>,
                                        ![i].pc = "loop"]
    /\ UNCHANGED <<parserVars, processVars, againVars, loadVars>>

TwoParseLoop(i) ==
    /\ parsers[i].pc = "loop"
    /\ parsers[i].offset < parsers[i].endOffset
    /\ \E r \in {LoopBody(parsers[i].view, parsers[i].offset, DefinitionsOf(parsers, i),
                           parsers[i].developerFields)} :
           parsers' = [parsers EXCEPT ![i].pc = IF r.threw THEN "threw" ELSE "loop",
                                      ![i].offset = r.offset,
                                      ![i].definitions = r.definitions,
                                      ![i].records = Push(parsers[i].records, r.result)]
    /\ UNCHANGED <<parserVars, processVars, againVars, loadVars>>

TwoParseReturn(i) ==
    /\ parsers[i].pc = "loop"
    /\ parsers[i].offset >= parsers[i].endOffset
    /\ parsers' = [parsers EXCEPT ![i].pc = "done"]
    /\ UNCHANGED <<parserVars, processVars, againVars, loadVars>>

RECURSIVE LoopAlone(_, _, _, _, _)
RECURSIVE AloneStep(_, _, _, _)
\* the loop continued after an iteration with outcome r
AloneStep(v, end, recs, r) == LoopAlone(v, r.offset, end, r.definitions, Push(recs, r.result))

\* the records the while loop of parse() returns, run from start to end
LoopAlone(v, off, end, defs, recs) ==
    IF off >= end THEN recs
    ELSE AloneStep(v, end, recs, LoopBody(v, off, defs, EmptyMap))

\* what parse() does on buffer v when run alone: it throws, or returns records
ParseAlone(v) ==
    IF ~readHeader(v).ok THEN [pc |-> "threw", records |-> <<>>]
    ELSE [pc |-> "done",
          records |-> LoopAlone(v, readHeader(v).headerSize,
                                readHeader(v).headerSize + readHeader(v).dataSize,
                                EmptyMap, <<>>)]

---------------------------------------------------------------------------
(* The byte layout of a FIT file, as the decoder reads it: the buffers the    *)
(* parser is run on are built with these.                                     *)

\* a 16-bit value in the byte order of architecture byte arch (0: little-endian)
Enc16(n, arch) == IF arch = 0 THEN <<n % 256, n \div 256>> ELSE <<n \div 256, n % 256>>

RECURSIVE Concat(_)
Concat(seqs) == IF seqs = <<>> THEN <<>> ELSE Head(seqs) \o Concat(Tail(seqs))

\* the file header readHeader reads: size, protocol version, profile version,
\* dataSize (little-endian uint32), '.FIT', and the two CRC bytes of a 14-byte header
FileHeader(headerSize, dataSize) ==
    <<headerSize, 16, 84, 8, dataSize % 256, dataSize \div 256, 0, 0>> \o FIT_SIGNATURE
    \o (IF headerSize > 12 THEN [i \in 1..(headerSize - 12) |-> 0] ELSE <<>>)

FieldDef(fieldDefNum, fieldSize, baseType) ==
    [fieldDefNum |-> fieldDefNum, fieldSize |-> fieldSize, baseType |-> baseType]

DevFieldDef(fieldNum, size, devDataIndex) ==
    [fieldNum |-> fieldNum, size |-> size, devDataIndex |-> devDataIndex]

\* a definition message as readMessage and readDefinitionMessage read it
DefinitionMessage(local, hasDeveloperData, arch, globalMessageNumber, fields, devFields) ==
    <<FIT_MESSAGE_TYPE_DEFINITION
        + (IF hasDeveloperData THEN FIT_MESSAGE_TYPE_DEV_FIELDS ELSE 0) + local,
      0, arch>>
    \o Enc16(globalMessageNumber, arch)
    \o <<Len(fields)>>
    \o Concat([i \in 1..Len(fields) |->
                 <<fields[i].fieldDefNum, fields[i].fieldSize, fields[i].baseType>>])
    \o (IF hasDeveloperData
        THEN <<Len(devFields)>>
             \o Concat([i \in 1..Len(devFields) |->
                          <<devFields[i].fieldNum, devFields[i].size, devFields[i].devDataIndex>>])
        ELSE <<>>)

\* a data message: the header byte, then the bytes of the fields
DataMessage(recordHeader, payload) == <<recordHeader>> \o payload

\* a file: the header declaring dataSize, then the message bytes
File(headerSize, dataSize, body) == FileHeader(headerSize, dataSize) \o body

\* a file whose declared dataSize is the length of its message bytes
WellSized(headerSize, body) == File(headerSize, Len(body), body)

\* uint16 (0x84), uint8 (0x02)
U16(fieldDefNum) == FieldDef(fieldDefNum, 2, 132)
U8(fieldDefNum) == FieldDef(fieldDefNum, 1, 2)

---------------------------------------------------------------------------
(* The buffers parse() is run on *)

KnownFieldNums ==
    {253, 0, 1, 2, 3, 4, 5, 6, 7, 39, 40, 41, 42, 43, 44, 45, 46, 47, 48, 49, 53, 62,
     73, 78, 79, 83}

Values16 == {0, 1, 255, 256, 258, 513, 1000, 32768, 65535}
HeaderSizes == {12, 14}

\* one definition of a single uint16 field, one data message holding v
SingleU16Body(local, fieldDefNum, v) ==
    DefinitionMessage(local, FALSE, 0, MSG_RECORD, <<U16(fieldDefNum)>>, <<>>)
    \o DataMessage(local, Enc16(v, 0))

SingleLocals == {0, 15}

\* each case: the file, the field number and the value it encodes
SingleU16Cases ==
    {[file |-> WellSized(hs, SingleU16Body(local, f, v)), fieldDefNum |-> f, value |-> v] :
        hs \in HeaderSizes, local \in SingleLocals, f \in KnownFieldNums, v \in Values16}

SingleU16Files == {c.file : c \in SingleU16Cases}

\* --- a local type defined with layout A, then redefined with layout B

\* a field layout: the architecture byte and the fields of a definition
Layout(arch, fields) == [arch |-> arch, fields |-> fields]

Layouts ==
    {Layout(0, <<U16(6)>>), Layout(1, <<U16(6)>>),
     Layout(0, <<U8(3), U16(6)>>), Layout(1, <<U16(5), U8(3)>>)}

\* the value field i of a data message carries, derived from a seed
ValueFor(field, seed) == IF field.fieldSize = 1 THEN seed % 256 ELSE seed

\* the bytes of the fields of a data message of layout lay
Payload(lay, seed) ==
    Concat([i \in 1..Len(lay.fields) |->
              IF lay.fields[i].fieldSize = 1
              THEN <<ValueFor(lay.fields[i], seed)>>
              ELSE Enc16(ValueFor(lay.fields[i], seed), lay.arch)])

LayoutDefinition(local, lay) ==
    DefinitionMessage(local, FALSE, lay.arch, MSG_RECORD, lay.fields, <<>>)

\* the header byte of a data message of local type local: normal, or
\* compressed-timestamp (bit 7, local type in bits 6-5, time delta in bits 4-0)
NormalHeader(local) == local
CompressedHeader(local, delta) == FIT_COMPRESSED_TIMESTAMP + 32 * local + delta

Repeat(seq, k) == Concat([i \in 1..k |-> seq])

MaxBetween == 2
MaxAfter == 2
SeedsA == {258}
SeedsB == {513, 1000}
RedefLocals == {0, 3}

\* definition A, k data messages of layout A, definition B, m data messages of
\* layout B with the given kind of header
RedefBody(local, layA, seedA, k, layB, compressed, m, seed) ==
    LayoutDefinition(local, layA)
    \o Repeat(DataMessage(NormalHeader(local), Payload(layA, seedA)), k)
    \o LayoutDefinition(local, layB)
    \o Repeat(DataMessage(IF compressed THEN CompressedHeader(local, 21)
                          ELSE NormalHeader(local),
                          Payload(layB, seed)), m)

RedefCases ==
    {[file |-> WellSized(12, RedefBody(local, layA, seedA, k, layB, compressed, m, seed)),
      layA |-> layA, seedA |-> seedA, k |-> k, layB |-> layB, m |-> m, seed |-> seed] :
        local \in RedefLocals, layA \in Layouts, seedA \in SeedsA, k \in 0..MaxBetween,
        layB \in Layouts,
        compressed \in BOOLEAN, m \in 1..MaxAfter, seed \in SeedsB}

RedefFiles == {c.file : c \in RedefCases}

\* --- a little-endian definition on local type 0, a big-endian one on local
\* type 1, and data messages encoding 0x0102 for either, in any order

MaxInterleave == 4

Chunk(c) ==
    CASE c = 1 -> LayoutDefinition(0, Layout(0, <<U16(6)>>))
      [] c = 2 -> LayoutDefinition(1, Layout(1, <<U16(6)>>))
      [] c = 3 -> DataMessage(NormalHeader(0), <<2, 1>>)
      [] c = 4 -> DataMessage(NormalHeader(1), <<1, 2>>)

Interleavings == UNION {[1..n -> 1..4] : n \in 1..MaxInterleave}

InterleavedBody(s) == Concat([i \in 1..Len(s) |-> Chunk(s[i])])

InterleavedCases == {[file |-> WellSized(12, InterleavedBody(s)), s |-> s] : s \in Interleavings}

InterleavedFiles == {c.file : c \in InterleavedCases}

\* --- a record message, one garbage byte, another record message

GarbageLocals == {0, 5}
GarbageValues == {258, 1000}

GarbageBody(local, v1, g, v2) ==
    LayoutDefinition(local, Layout(0, <<U16(6)>>))
    \o DataMessage(NormalHeader(local), Enc16(v1, 0))
    \o <<g>>
    \o DataMessage(NormalHeader(local), Enc16(v2, 0))

GarbageCases ==
    {[file |-> WellSized(12, GarbageBody(local, 1000, g, v2)),
      local |-> local, g |-> g, v1 |-> 1000, v2 |-> v2] :
        local \in GarbageLocals, g \in 0..255, v2 \in GarbageValues}

GarbageFiles == {c.file : c \in GarbageCases}

\* --- messages cut short by the end of the buffer, and a declared dataSize
\* that is not the number of message bytes present

MaxOver == 2

Prefix(seq, n) == SubSeq(seq, 1, n)

\* the sizes a header may declare for n bytes present of a body of full bytes
DeclaredSizes(n, full) == {n, full} \cup {n + o : o \in 1..MaxOver}

ProbeDefinition ==
    DefinitionMessage(1, TRUE, 0, MSG_RECORD, <<U8(3), U16(6)>>,
                      <<DevFieldDef(0, 2, 0)>>)

\* every proper prefix of a definition message
CutDefinitionFiles ==
    UNION {{File(12, d, Prefix(ProbeDefinition, n)) :
               d \in DeclaredSizes(n, Len(ProbeDefinition))} :
           n \in 0..(Len(ProbeDefinition) - 1)}

CutDataLayout == Layout(0, <<U8(3), U16(6), U16(5)>>)

CutDataBody(n) ==
    LayoutDefinition(0, CutDataLayout)
    \o Prefix(DataMessage(NormalHeader(0), Payload(CutDataLayout, 1000)), n)

\* a definition, then every proper prefix of its data message
CutDataCases ==
    UNION {{[file |-> File(12, d, CutDataBody(n)), present |-> n] :
               d \in DeclaredSizes(Len(CutDataBody(n)), Len(CutDataBody(6)))} :
           n \in 0..5}

CutDataFiles == {c.file : c \in CutDataCases}

\* a declared dataSize that ends before the bytes present do (a trailing CRC)
TrailingFiles ==
    {File(12, Len(SingleU16Body(0, 6, v)), SingleU16Body(0, 6, v) \o tail) :
        v \in {1000}, tail \in {<<52, 18>>, <<0, 232, 3>>}}

\* a declared dataSize that ends inside a message whose bytes are all present:
\* the stream of a definition (9 bytes) and a data message (3 bytes), then a
\* CRC of two bytes, declared 1..11 bytes long
OverrunBody == SingleU16Body(0, 6, 1000) \o <<52, 18>>

OverrunCases ==
    {[file |-> File(12, n, OverrunBody), dataSize |-> n] : n \in 1..(Len(OverrunBody) - 3)}

OverrunFiles == {c.file : c \in OverrunCases}

\* --- compressed-timestamp headers: local type l (0..3) defined with a
\* timestamp and a speed, another local type defined with one uint8 field, then
\* a data message of l under a compressed header with a time delta, and the
\* same data message under a normal header
CompressedLayout == Layout(0, <<U16(253), U16(6)>>)

CompressedPayload == Enc16(777, 0) \o Enc16(1000, 0)

CompressedBody(l, delta, other) ==
    DefinitionMessage(l, FALSE, 0, MSG_RECORD, CompressedLayout.fields, <<>>)
    \o DefinitionMessage(other, FALSE, 0, MSG_RECORD, <<U8(3)>>, <<>>)
    \o DataMessage(CompressedHeader(l, delta), CompressedPayload)
    \o DataMessage(NormalHeader(l), CompressedPayload)

CompressedCases ==
    {[file |-> WellSized(12, CompressedBody(c[1], c[2], c[3])), l |-> c[1], delta |-> c[2]] :
        c \in {x \in (0..3) \X {0, 1, 15, 31} \X {0, 1, 2, 3, 15} : x[3] # x[1]}}

CompressedFiles == {c.file : c \in CompressedCases}

\* --- a data message of a local type ahead of the definition of that type
EarlyDataBody(local, v) == DataMessage(NormalHeader(local), Enc16(v, 0)) \o SingleU16Body(local, 6, v)

EarlyDataCases ==
    {[file |-> WellSized(12, EarlyDataBody(local, v)), local |-> local, v |-> v] :
        local \in {0, 15}, v \in {513, 1000}}

EarlyDataFiles == {c.file : c \in EarlyDataCases}

\* --- buffers readHeader rejects

ValidFile == WellSized(12, SingleU16Body(0, 6, 1000))

ShortFiles == {Prefix(ValidFile, n) : n \in 0..11}

BadSignatureFiles ==
    {[ValidFile EXCEPT ![i] = x] : i \in 9..12, x \in {0, 102}}

\* --- one field of every base type and of several declared sizes

BaseTypes == 0..17 \cup {131, 132, 133, 134, 136, 137, 139, 140, 142, 143, 144}
FieldSizes == {0, 1, 2, 3, 4, 5, 8}
ProbeBytes == <<129, 2, 3, 4, 5, 6, 7, 8>>

\* the probed field (field number 3), then a uint16 speed
ProbeBody(arch, baseType, fieldSize) ==
    DefinitionMessage(0, FALSE, arch, MSG_RECORD,
                      <<FieldDef(3, fieldSize, baseType), U16(6)>>, <<>>)
    \o DataMessage(NormalHeader(0), Prefix(ProbeBytes, fieldSize) \o Enc16(1000, arch))

ProbeFiles ==
    {WellSized(12, ProbeBody(arch, baseType, fieldSize)) :
        arch \in {0, 1}, baseType \in BaseTypes, fieldSize \in FieldSizes}

\* the probed field last, with only the first present bytes of it in the buffer
ProbeCutBody(arch, baseType, fieldSize, present) ==
    DefinitionMessage(0, FALSE, arch, MSG_RECORD,
                      <<U8(4), FieldDef(3, fieldSize, baseType)>>, <<>>)
    \o DataMessage(NormalHeader(0), <<90>> \o Prefix(ProbeBytes, present))

ProbeCutFiles ==
    {WellSized(12, ProbeCutBody(arch, baseType, fieldSize, present)) :
        arch \in {0, 1}, baseType \in BaseTypes, fieldSize \in FieldSizes \ {0},
        present \in {0, 1, 3}}

\* --- developer fields

\* the single 220.0 (0x435C0000) and an all-ones pattern
DevPayloads == {<<0, 0, 92, 67, 0, 0, 0, 0>>, <<255, 255, 255, 255, 255, 255, 255, 255>>}

DevBody(arch, fieldNum, size, devDataIndex, bytes) ==
    DefinitionMessage(0, TRUE, arch, MSG_RECORD, <<U16(6)>>,
                      <<DevFieldDef(fieldNum, size, devDataIndex)>>)
    \o DataMessage(NormalHeader(0), Enc16(3000, arch) \o Prefix(bytes, size))

DevFiles ==
    {WellSized(12, DevBody(arch, fieldNum, size, devDataIndex, bytes)) :
        arch \in {0, 1}, fieldNum \in {0, 8}, size \in {1, 2, 3, 4, 8},
        devDataIndex \in {0, 1}, bytes \in DevPayloads}

\* --- a field of a type the decoder does not decode, over several byte contents

\* string, byte array, sint64, uint64, uint64z: the low five bits of the code
UnsupportedTypes == {7, 13, 14, 15, 16}

\* the codes as written in files: plain, with the 0x80 bit, with another high bit
UnsupportedCodes ==
    UnsupportedTypes \cup {t + 128 : t \in UnsupportedTypes} \cup {46}

UnsupportedPayloads ==
    {<<129, 2, 3, 4, 5, 6, 7, 8>>, <<0, 0, 0, 0, 0, 0, 0, 0>>,
     <<255, 255, 255, 255, 255, 255, 255, 255>>}

\* the unsupported field (field number 3), then a uint16 speed
UnsupportedBody(arch, baseType, fieldSize, bytes) ==
    DefinitionMessage(0, FALSE, arch, MSG_RECORD,
                      <<FieldDef(3, fieldSize, baseType), U16(6)>>, <<>>)
    \o DataMessage(NormalHeader(0), Prefix(bytes, fieldSize) \o Enc16(1000, arch))

UnsupportedCases ==
    {[file |-> WellSized(12, UnsupportedBody(arch, baseType, fieldSize, bytes)),
      baseType |-> baseType] :
        arch \in {0, 1}, baseType \in UnsupportedCodes, fieldSize \in {1, 4, 8},
        bytes \in UnsupportedPayloads}

UnsupportedFiles == {c.file : c \in UnsupportedCases}

\* --- messages of other global message numbers between record messages

\* other numbers, 206 and 207, and numbers sharing a byte with 20 (0x0114, 0x1400)
OtherGlobals == {0, 19, 21, 206, 207, 276, 5120}

OtherFields == {<<U8(3), U16(6)>>, <<U16(6)>>}

\* a record definition on local type 1, a definition of global number g on local
\* type 0 (with a developer field or without), then data messages: record,
\* other, record
OtherBody(arch, g, fields, hasDev) ==
    LayoutDefinition(1, Layout(arch, <<U16(6)>>))
    \o DefinitionMessage(0, hasDev, arch, g, fields, <<DevFieldDef(0, 2, 0)>>)
    \o DataMessage(NormalHeader(1), Enc16(258, arch))
    \o DataMessage(NormalHeader(0),
                   Payload(Layout(arch, fields), 3000)
                   \o (IF hasDev THEN Enc16(2200, arch) ELSE <<>>))
    \o DataMessage(NormalHeader(1), Enc16(1000, arch))

OtherCases ==
    {[file |-> WellSized(12, OtherBody(arch, g, fields, hasDev)), g |-> g, hasDev |-> hasDev] :
        arch \in {0, 1}, g \in OtherGlobals, fields \in OtherFields, hasDev \in BOOLEAN}

OtherFiles == {c.file : c \in OtherCases}

Buffers ==
    SingleU16Files \cup RedefFiles \cup InterleavedFiles \cup GarbageFiles
    \cup CutDefinitionFiles \cup CutDataFiles \cup TrailingFiles
    \cup ShortFiles \cup BadSignatureFiles \cup ProbeFiles \cup ProbeCutFiles \cup DevFiles
    \cup UnsupportedFiles \cup OtherFiles \cup OverrunFiles \cup CompressedFiles
    \cup EarlyDataFiles

\* --- the buffers of the two instances: the same local type 0 defined with
\* different layouts, two local types, a garbage byte, a rejected header

TwoBuffers ==
    {WellSized(12, RedefBody(0, layA, 258, 1, layB, FALSE, 1, 1000)) :
        layA \in Layouts, layB \in {Layout(0, <<U16(6)>>), Layout(1, <<U16(5), U8(3)>>)}}
    \cup {WellSized(12, InterleavedBody(<<1, 2, 4, 3>>)),
          WellSized(12, GarbageBody(0, 1000, 255, 258)),
          Prefix(ValidFile, 11)}

\* each buffer with the result of parsing it alone
TwoCases == {[file |-> f, alone |-> ParseAlone(f)] : f \in TwoBuffers}

\* --- the record arrays processRecords is called on

\* a property that may be missing: the empty record, or the property set to
\* one of the values
Optional(name, values) == {EmptyMap} \cup {(name :> v) : v \in values}

BaseRecord == ("messageType" :> 20)

\* speed and enhanced_speed around the thresholds 0, 100 and 0.5 m/s
SpeedRecords ==
    {BaseRecord @@ sp @@ es :
        sp \in Optional("speed", {0, 1, 50, 100, 101, 500, 501, 3000, 65535}),
        es \in Optional("enhanced_speed", {0, 50, 400, 2500})}

\* a running speed, and a distance
DistanceRecords ==
    {BaseRecord @@ ("speed" :> 3000) @@ di :
        di \in Optional("distance", {0, 1, 3, 7, 100, 50000, 300000, 500000, 4200000})}

\* stance_time (Garmin) and ground_time (Stryd) around the gate 150..400 ms
GctRecords ==
    {BaseRecord @@ ("speed" :> 3000) @@ st @@ gt :
        st \in Optional("stance_time", {0, 50, 1499, 1500, 2200, 4000, 4001}),
        gt \in Optional("ground_time", {50, 2300, 4000, 4001})}

\* the running dynamics
DynamicsRecords ==
    {BaseRecord @@ ("speed" :> 3000) @@ vo @@ vs @@ sl @@ vr @@ ba :
        vo \in Optional("vertical_oscillation", {0, 850}),
        vs \in Optional("vertical_oscillation_stryd", {8}),
        sl \in Optional("step_length", {0, 11000}),
        vr \in Optional("vertical_ratio", {0, 750}),
        ba \in Optional("stance_time_balance", {4950})}

\* cadence and fractional_cadence
CadenceRecords ==
    {BaseRecord @@ ("speed" :> 3000) @@ ca @@ fc :
        ca \in Optional("cadence", {0, 85, 255}),
        fc \in Optional("fractional_cadence", {0, 64, 127})}

\* the fields whose raw 0 stands for a missing value
ZeroFields ==
    {"distance", "enhanced_speed", "speed", "stance_time", "ground_time",
     "vertical_oscillation", "step_length", "step_length_alt", "vertical_ratio",
     "vertical_ratio_alt", "stance_time_balance", "stance_time_balance_alt",
     "cadence", "fractional_cadence"}

\* a record with a value for each of them
FullRecord ==
    BaseRecord @@ ("timestamp" :> 7) @@ ("heart_rate" :> 150) @@ ("distance" :> 50000)
    @@ ("enhanced_speed" :> 2500) @@ ("speed" :> 3000) @@ ("stance_time" :> 2200)
    @@ ("ground_time" :> 2300) @@ ("vertical_oscillation" :> 850)
    @@ ("vertical_oscillation_stryd" :> 8) @@ ("step_length" :> 11000)
    @@ ("step_length_alt" :> 10000) @@ ("vertical_ratio" :> 750)
    @@ ("vertical_ratio_alt" :> 800) @@ ("stance_time_balance" :> 4950)
    @@ ("stance_time_balance_alt" :> 5050) @@ ("cadence" :> 85)
    @@ ("fractional_cadence" :> 64)

\* record r without the properties of names
Without(r, names) == [n \in DOMAIN r \ names |-> r[n]]

\* the full record with one field 0 and another one 0, absent or as it is
ZeroRecords ==
    {(f :> 0) @@ g @@ Without(FullRecord, h) :
        f \in ZeroFields,
        g \in UNION {Optional(n, {0}) : n \in ZeroFields},
        h \in {{}} \cup {{n} : n \in ZeroFields}}

\* a developer value under the key dev_<devIndex>_<fieldNum>
ScanEntry(devIndex, fieldNum, val) == [devIndex |-> devIndex, fieldNum |-> fieldNum, val |-> val]

\* developer power, mapped Stryd power and native power
PowerRecords ==
    {BaseRecord @@ ("speed" :> 3000) @@ ("dev" :> dv) @@ sp @@ pw :
        dv \in {<<>>, <<ScanEntry(0, 0, FromInt(220))>>, <<ScanEntry(0, 0, FromInt(900))>>},
        sp \in Optional("stryd_power", {0, 250}),
        pw \in Optional("power", {0, 300})}

\* the three altitudes
AltitudeRecords ==
    {BaseRecord @@ ("speed" :> 3000) @@ ea @@ al @@ el :
        ea \in Optional("enhanced_altitude", {0, 2600}),
        al \in Optional("altitude", {0, 2700}),
        el \in Optional("elevation", {0, 120})}

\* developer values around the limits of the five rules, and the values that
\* are skipped
ScanValues ==
    {Zero, NaN, Infinity, FDiv(FromInt(1), FromInt(32)), Twentieth, FromInt(3), FromInt(4),
     FromInt(5), FromInt(15), FromInt(16), FromInt(25), FromInt(26), FromInt(29), FromInt(30),
     FromInt(49), FromInt(50), FromInt(60), FromInt(61), FromInt(120), FromInt(121),
     FromInt(220), FromInt(800), FromInt(801)}

\* the slots of the rules, and slots of no rule
ScanSlots == {0, 3, 5, 7, 8, 9, 11, 10, 1, 18}

\* one developer value, with and without the mapped Stryd fields
SingleDevRecords ==
    {BaseRecord @@ ("speed" :> 3000) @@ ("dev" :> <<ScanEntry(0, slot, val)>>) @@ mapped :
        slot \in ScanSlots, val \in ScanValues,
        mapped \in {<<>>, ("form_power" :> 40) @@ ("leg_spring_stiffness" :> 10)
                           @@ ("air_power" :> 2)}}

\* the entries of the records of two developer values
PairEntries ==
    {ScanEntry(i, slot, val) :
        i \in {0, 1}, slot \in {0, 8, 11}, val \in {FromInt(45), FromInt(60), FromInt(220)}}

\* two developer values under different keys, in either order
PairDevRecords ==
    {BaseRecord @@ ("speed" :> 3000) @@ ("dev" :> <<ab[1], ab[2]>>) :
        ab \in {x \in PairEntries \X PairEntries :
                   x[1].devIndex # x[2].devIndex \/ x[1].fieldNum # x[2].fieldNum}}

MaxRecords == 3

\* records of a slow and of a running speed, with and without a distance
SequenceRecords ==
    {BaseRecord @@ ("speed" :> sp) @@ di :
        sp \in {400, 3000}, di \in Optional("distance", {0, 300000, 500000})}

ProcessInputs ==
    {<<r>> : r \in SpeedRecords \cup DistanceRecords \cup GctRecords \cup DynamicsRecords}
    \cup {<<r>> : r \in CadenceRecords \cup ZeroRecords \cup PowerRecords \cup AltitudeRecords}
    \cup {<<r>> : r \in SingleDevRecords \cup PairDevRecords}
    \cup UNION {[1..n -> SequenceRecords] : n \in 0..MaxRecords}

\* --- files of up to MaxRecords record messages: timestamp, speed, distance

AppLayout == Layout(0, <<U16(253), U16(6), U16(5)>>)

\* the data message of position i: timestamp 100 + i, then speed and distance
AppMessage(i, speedDistance) ==
    DataMessage(NormalHeader(0),
                Enc16(100 + i, 0) \o Enc16(speedDistance[1], 0) \o Enc16(speedDistance[2], 0))

AppBody(msgs) ==
    LayoutDefinition(0, AppLayout) \o Concat([i \in 1..Len(msgs) |-> AppMessage(i, msgs[i])])

\* <<speed, distance>> of a message
AppMessages == {400, 501, 3000} \X {0, 3, 50000}

AppCases ==
    {[file |-> WellSized(12, AppBody(msgs)), msgs |-> msgs] :
        msgs \in UNION {[1..n -> AppMessages] : n \in 0..MaxRecords}}

AppBuffers == {c.file : c \in AppCases} \cup {Prefix(ValidFile, 11)}

\* no parse in progress, no processRecords call in progress
ParserIdle ==
    /\ view = <<>> /\ offset = 0 /\ definitions = EmptyMap /\ developerFields = EmptyMap
    /\ endOffset = 0 /\ records = <<>> /\ pc = "idle" /\ last = NoStep

TwoIdle == parsers = <<>>

\* parse() is in its first call, or was not called
FirstCall == calls = 1 /\ firstRecords = <<>>
NoCall == calls = 0 /\ firstRecords = <<>>

\* the component as mounted: no file selected
LoadIdle == ui = Mounted /\ loads = <<>>

ProcessIdle ==
    /\ input = <<>> /\ kept = <<>> /\ lastValidDistance = Zero /\ points = <<>>
    /\ ppc = "idle"

Init ==
    /\ view \in Buffers
    /\ offset = 0
    /\ definitions = EmptyMap
    /\ developerFields = EmptyMap
    /\ endOffset = 0
    /\ records = <<>>
    /\ pc = "start"
    /\ last = NoStep
    /\ TwoIdle
    /\ ProcessIdle
    /\ FirstCall
    /\ LoadIdle

Next ==
    \/ ParseInvalidHeader
    \/ ParseBegin
    \/ ParseLoop
    \/ ParseReturn

Spec == Init /\ [][Next]_vars

NextAgain ==
    \/ ParseInvalidHeader
    \/ ParseBegin
    \/ ParseLoop
    \/ ParseReturn
    \/ ParseAgain

\* parse() called on an instance, and called again after it returned
SpecAgain == Init /\ [][NextAgain]_vars

\* the component is mounted and files are selected
InitLoad ==
    /\ LoadIdle
    /\ ParserIdle
    /\ TwoIdle
    /\ ProcessIdle
    /\ NoCall

NextLoad ==
    \/ HandleChange
    \/ HandleDrop
    \/ \E i \in 1..Len(loads) : ArrayBufferResolved(i) \/ ParseResolved(i)

SpecLoad == InitLoad /\ [][NextLoad]_vars

\* two parsers, each constructed on a buffer of its own
InitTwo ==
    /\ parsers \in [1..2 -> {NewParser(f) : f \in TwoBuffers}]
    /\ ParserIdle
    /\ ProcessIdle
    /\ NoCall
    /\ LoadIdle

NextTwo ==
    \E i \in 1..2 :
        \/ TwoParseInvalidHeader(i)
        \/ TwoParseBegin(i)
        \/ TwoParseLoop(i)
        \/ TwoParseReturn(i)

SpecTwo == InitTwo /\ [][NextTwo]_vars

\* processRecords called on an array of records
InitProcess ==
    /\ input \in ProcessInputs
    /\ kept = <<>>
    /\ lastValidDistance = Zero
    /\ points = <<>>
    /\ ppc = "filter"
    /\ ParserIdle
    /\ TwoIdle
    /\ NoCall
    /\ LoadIdle

NextProcess ==
    \/ ProcessFilter
    \/ ProcessMap
    \/ ProcessReturn

SpecProcess == InitProcess /\ [][NextProcess]_vars

\* a file is parsed and the records parse() returns are processed
InitApp ==
    /\ view \in AppBuffers
    /\ offset = 0
    /\ definitions = EmptyMap
    /\ developerFields = EmptyMap
    /\ endOffset = 0
    /\ records = <<>>
    /\ pc = "start"
    /\ last = NoStep
    /\ TwoIdle
    /\ ProcessIdle
    /\ FirstCall
    /\ LoadIdle

NextApp ==
    \/ ParseInvalidHeader
    \/ ParseBegin
    \/ ParseLoop
    \/ ParseReturn
    \/ CallProcessRecords
    \/ ProcessFilter
    \/ ProcessMap
    \/ ProcessReturn

SpecApp == InitApp /\ [][NextApp]_vars

---------------------------------------------------------------------------
(* Properties *)

\* C1: a stream of one little-endian definition message (global message
\* number 20) declaring a single uint16 field of a known record field number,
\* followed by one matching data message encoding v, makes parse() return
\* exactly one record, whose field map holds that field with value v.
C1_SingleUint16Decoded ==
    pc = "done" =>
        \A c \in SingleU16Cases :
            view = c.file =>
                /\ Len(records) = 1
                /\ RECORD_FIELDS(c.fieldDefNum) \in DOMAIN records[1].fields
                /\ records[1].fields[RECORD_FIELDS(c.fieldDefNum)] = Num(c.value)

C1_Witness ==
    /\ pc = "done"
    /\ view = WellSized(12, SingleU16Body(0, 6, 1000))
    /\ records = <<[messageType |-> 20, fields |-> ("speed" :> Num(1000))]>>

\* the record a data message of layout lay carrying seed stands for
ExpectedRecord(lay, seed) ==
    [messageType |-> 20,
     fields |-> [n \in {RECORD_FIELDS(lay.fields[i].fieldDefNum) : i \in 1..Len(lay.fields)} |->
                   Num(ValueFor(lay.fields[CHOOSE i \in 1..Len(lay.fields) :
                                   RECORD_FIELDS(lay.fields[i].fieldDefNum) = n], seed))]]

\* C2: when a local type is defined with layout A and later redefined with
\* layout B, every data message for that local type after the second
\* definition is decoded with B's fields, sizes and endianness only, and the
\* cursor advances by B's size (it ends exactly at the end of the stream),
\* whether or not data messages arrived between the two definitions.
C2_RedefinitionDecodesWithLatest ==
    pc = "done" =>
        \A c \in RedefCases :
            view = c.file =>
                /\ records = [i \in 1..(c.k + c.m) |->
                                IF i <= c.k THEN ExpectedRecord(c.layA, c.seedA)
                                ELSE ExpectedRecord(c.layB, c.seed)]
                /\ offset = Len(view)

C2_Witness ==
    /\ pc = "done"
    /\ \E c \in RedefCases :
          /\ view = c.file
          /\ c.layA = Layout(0, <<U8(3), U16(6)>>) /\ c.layB = Layout(1, <<U16(5), U8(3)>>)
          /\ c.k = 1 /\ c.m = 2 /\ c.seed = 1000
    /\ Len(records) = 3
    /\ records[3].fields = ("distance" :> Num(1000) @@ "heart_rate" :> Num(232))

\* every data chunk of s comes after the definition chunk of its local type
DefinedBeforeUse(s) ==
    \A i \in 1..Len(s) :
        /\ s[i] = 3 => \E j \in 1..(i - 1) : s[j] = 1
        /\ s[i] = 4 => \E j \in 1..(i - 1) : s[j] = 2

\* C3: with a little-endian definition on one local type and a big-endian
\* definition on another, data messages encoding 0x0102 in their respective
\* byte orders all decode to 258, in whatever order the definitions and the
\* data messages are interleaved.
C3_EndiannessPerDefinition ==
    pc = "done" =>
        \A c \in InterleavedCases :
            (view = c.file /\ DefinedBeforeUse(c.s)) =>
                /\ Len(records) = Cardinality({i \in 1..Len(c.s) : c.s[i] \in {3, 4}})
                /\ \A i \in 1..Len(records) : records[i].fields = ("speed" :> Num(258))

C3_Witness ==
    /\ pc = "done"
    /\ view = WellSized(12, InterleavedBody(<<1, 2, 4, 3>>))
    /\ Len(records) = 2
    /\ records[1].fields = ("speed" :> Num(258))
    /\ records[2].fields = ("speed" :> Num(258))

\* The garbage byte g, read as a header, is a data header (normal: bits 7 and 6
\* clear, local type in bits 3-0; compressed: bit 7 set, local type in bits
\* 6-5) of a local type other than the one defined.
UndefinedDataHeader(g, local) ==
    \/ g >= 128 /\ (g \div 32) % 4 # local
    \/ g < 64 /\ g % 16 # local

\* C4 as stated: one record message, one garbage byte, another record message
\* give exactly two records, the two encoded, for every value of the byte.
C4_AnyGarbageByteSkipped ==
    pc = "done" =>
        \A c \in GarbageCases :
            view = c.file =>
                records = <<[messageType |-> 20, fields |-> ("speed" :> Num(c.v1))],
                            [messageType |-> 20, fields |-> ("speed" :> Num(c.v2))]>>

\* C4, amended: the same for every garbage byte that reads as a data header
\* of a local type with no stored definition.
C4_UndefinedHeaderByteSkipped ==
    pc = "done" =>
        \A c \in GarbageCases :
            (view = c.file /\ UndefinedDataHeader(c.g, c.local)) =>
                records = <<[messageType |-> 20, fields |-> ("speed" :> Num(c.v1))],
                            [messageType |-> 20, fields |-> ("speed" :> Num(c.v2))]>>

C4_Witness ==
    /\ pc = "done"
    /\ view = WellSized(12, GarbageBody(0, 1000, 255, 258))
    /\ records = <<[messageType |-> 20, fields |-> ("speed" :> Num(1000))],
                   [messageType |-> 20, fields |-> ("speed" :> Num(258))]>>

\* C5 (its step): on every iteration of the decode loop the read cursor
\* strictly advances, so that it reaches headerSize + dataSize and parse()
\* returns, also when the declared dataSize extends past the bytes present.
C5_CursorAdvancesEachIteration ==
    (pc = "loop" /\ last.kind # "none") => offset > last.start

\* C6: once readHeader has accepted the header, parse() never throws to the
\* caller: a failure inside the decode loop leaves it in the loop.
C6_NoThrowAfterHeader == [][pc = "loop" => pc' # "threw"]_vars

\* a RangeError thrown by readDefinitionMessage was caught and the loop goes on
C6_Witness ==
    /\ pc = "loop"
    /\ last.kind = "throw"
    /\ offset > byteLength(view)

\* C7: on a buffer shorter than 12 bytes, or whose bytes 8-11 are not '.FIT',
\* parse() fails with the invalid-header error: no message is decoded and no
\* record list is returned.
C7_InvalidHeaderRejected ==
    (Len(view) < 12 \/ SubSeq(view, 9, 12) # <<46, 70, 73, 84>>) =>
        /\ pc \in {"start", "threw"}
        /\ records = <<>>
        /\ last = NoStep
        /\ definitions = EmptyMap

C7_Witness ==
    /\ pc = "threw"
    /\ Len(view) >= 12
    /\ SubSeq(view, 9, 12) = <<46, 70, 73, 102>>

FieldsInside(present) ==
    [n \in (IF present >= 2 THEN {"heart_rate"} ELSE {})
           \cup (IF present >= 4 THEN {"speed"} ELSE {}) |->
        IF n = "heart_rate" THEN Num(232) ELSE Num(1000)]

AtUndefinedDataHeader ==
    /\ pc = "loop" /\ offset < endOffset /\ offset < Len(view)
    /\ \/ view[offset + 1] >= 128 /\ (view[offset + 1] \div 32) % 4 \notin DOMAIN definitions
       \/ view[offset + 1] < 64 /\ view[offset + 1] % 16 \notin DOMAIN definitions

\* C9: a data-message header (normal or compressed-timestamp) that references
\* a local type with no stored definition consumes exactly one byte, emits no
\* message and leaves the definition table unchanged.
C9_UndefinedLocalTypeSkipsOneByte ==
    [][AtUndefinedDataHeader =>
          /\ offset' = offset + 1
          /\ records' = records
          /\ definitions' = definitions
          /\ pc' = "loop"]_vars

C9_Witness ==
    /\ pc = "loop"
    /\ last.kind = "nodef"
    /\ view[last.start + 1] >= 128
    /\ offset = last.start + 1

\* the minimum width of a base type (low five bits of the code); 0 for the
\* types that are never decoded
MinWidthOf(code) ==
    CASE code \in {0, 1, 2, 10} -> 1
      [] code \in {3, 4, 11} -> 2
      [] code \in {5, 6, 8, 12} -> 4
      [] code = 9 -> 8
      [] OTHER -> 0

\* C10: readFieldValue returns absent whenever the field's declared byte size
\* is smaller than the minimum width of its base type, or the read would
\* extend past the end of the buffer.
C10_AbsentWhenTooSmallOrPastEnd ==
    \A i \in 1..Len(last.reads) :
        (\/ MinWidthOf(last.reads[i].field.baseType % 32) = 0
         \/ last.reads[i].field.fieldSize < MinWidthOf(last.reads[i].field.baseType % 32)
         \/ last.reads[i].at + MinWidthOf(last.reads[i].field.baseType % 32) > Len(view))
        => last.reads[i].value = Null

\* the declared byte sizes of the fields and developer fields read by the
\* latest data message, summed
DeclaredBytes(step) ==
    SizeSum([i \in 1..Len(step.reads) |-> step.reads[i].field.fieldSize], Len(step.reads))
    + SizeSum([i \in 1..Len(step.devReads) |-> step.devReads[i].devField.size],
              Len(step.devReads))

\* C11: after a data message is decoded against definition D, the cursor
\* stands exactly at header position + 1 + the sum of the declared byte sizes
\* of D's fields and developer fields, which equals D's stored size, whatever
\* the base types are and whether each value decoded or was absent.
C11_CursorAfterDataMessage ==
    last.kind = "data" =>
        /\ offset = last.start + 1 + DeclaredBytes(last)
        /\ last.local \in DOMAIN definitions
        /\ DeclaredBytes(last) = definitions[last.local].size

\* a sint64 field of 8 bytes decoded to absent, the uint16 after it decoded
C11_Witness ==
    /\ last.kind = "data"
    /\ Len(last.reads) = 2
    /\ last.reads[1].field = FieldDef(3, 8, 142)
    /\ last.reads[1].value = Null
    /\ last.reads[2].value = Num(1000)
    /\ offset = last.start + 11

\* C12: a field whose base-type code has low five bits 14 (sint64) always
\* decodes to absent whatever bytes it covers, and is never entered in the
\* record's field map; the same holds for codes 7 (string), 13 (byte array),
\* 15 and 16 (uint64, uint64z), with or without the 0x80 bit set.
C12_UnsupportedTypesAbsent ==
    /\ \A i \in 1..Len(last.reads) :
          last.reads[i].field.baseType % 32 \in UnsupportedTypes
              => last.reads[i].value = Null
    /\ pc = "done" =>
          \A c \in UnsupportedCases :
              view = c.file =>
                  records = <<[messageType |-> 20, fields |-> ("speed" :> Num(1000))]>>

\* eight 0xFF bytes declared sint64 (0x8E), big-endian, then speed 1000
C12_Witness ==
    /\ pc = "done"
    /\ view = WellSized(12, UnsupportedBody(1, 142, 8, <<255, 255, 255, 255, 255, 255, 255, 255>>))
    /\ last.reads[1].value = Null
    /\ records = <<[messageType |-> 20, fields |-> ("speed" :> Num(1000))]>>

\* C13: every element parse() returns has global message number 20: data
\* messages of any other global number (206 and 207 included) are decoded
\* only so that the cursor advances by their size, and they never appear in
\* the output or add fields to a record.
C13_OnlyRecordMessagesReturned ==
    /\ \A i \in 1..Len(records) : records[i].messageType = MSG_RECORD
    /\ pc = "done" =>
          \A c \in OtherCases :
              view = c.file =>
                  /\ records = <<[messageType |-> 20, fields |-> ("speed" :> Num(258))],
                                 [messageType |-> 20, fields |-> ("speed" :> Num(1000))]>>
                  /\ offset = Len(view)

\* a message of global number 206 with a developer field lies between the two
C13_Witness ==
    /\ pc = "done"
    /\ \E c \in OtherCases : view = c.file /\ c.g = 206 /\ c.hasDev
    /\ Len(records) = 2
    /\ records[2].fields = ("speed" :> Num(1000))

\* C14: two FITParser instances decoding two independent buffers, with their
\* per-message decode steps interleaved in any order, each return exactly
\* the record sequence they return when run alone: no definition table,
\* cursor or developer-field table is shared between parses.
C14_InterleavedParsesAsAlone ==
    \A i \in DOMAIN parsers :
        parsers[i].pc \in {"done", "threw"} =>
            \A c \in TwoCases :
                parsers[i].view = c.file =>
                    /\ parsers[i].pc = c.alone.pc
                    /\ parsers[i].records = c.alone.records

\* both finished; the buffers define local type 0 with different layouts and
\* the second parser took a step while the first was still in its loop
C14_Witness ==
    /\ DOMAIN parsers = 1..2
    /\ parsers[1].pc = "done" /\ parsers[2].pc = "done"
    /\ parsers[1].view = WellSized(12, RedefBody(0, Layout(0, <<U8(3), U16(6)>>), 258, 1,
                                                 Layout(1, <<U16(5), U8(3)>>), FALSE, 1, 1000))
    /\ parsers[2].view = WellSized(12, RedefBody(0, Layout(1, <<U16(6)>>), 258, 1,
                                                 Layout(0, <<U16(6)>>), FALSE, 1, 1000))
    /\ Len(parsers[1].records) = 2 /\ Len(parsers[2].records) = 2
    /\ parsers[1].definitions # parsers[2].definitions

\* the FITRecord of the data message at position i of an AppCases file
AppRecord(i, speedDistance) ==
    BaseRecord @@ ("timestamp" :> 100 + i) @@ ("speed" :> speedDistance[1])
    @@ ("distance" :> speedDistance[2])

RECURSIVE IsSubsequence(_, _)
\* a is b with some elements left out, the others in the same order
IsSubsequence(a, b) ==
    IF a = <<>> THEN TRUE
    ELSE IF b = <<>> THEN FALSE
    ELSE IF Head(a) = Head(b) THEN IsSubsequence(Tail(a), Tail(b))
    ELSE IsSubsequence(a, Tail(b))

\* C15: the core never reorders records: parse() returns records in the
\* order their data messages occur in the stream, and processRecords emits a
\* subsequence of its input in the same relative order, in which the k-th
\* emitted point has idx = k (0-based, consecutive), so that idx is strictly
\* increasing along the output.
C15_OrderPreserved ==
    /\ pc = "done" =>
          \A c \in AppCases :
              view = c.file =>
                  [i \in 1..Len(records) |-> RawRecord(records[i])]
                      = [i \in 1..Len(c.msgs) |-> AppRecord(i, c.msgs[i])]
    /\ ppc \in {"map", "returned"} => IsSubsequence(kept, input)
    /\ \A k \in 1..Len(points) :
          /\ points[k].idx = k - 1
          /\ points[k].timestamp = FromInt(kept[k].timestamp)
          /\ k > 1 => points[k].idx > points[k - 1].idx

\* three messages, the second too slow: the points are those of the first and
\* the third, in that order
C15_Witness ==
    /\ ppc = "returned"
    /\ view = WellSized(12, AppBody(<<<<3000, 3>>, <<400, 50000>>, <<501, 50000>>>>))
    /\ Len(input) = 3
    /\ Len(points) = 2
    /\ points[1].timestamp = FromInt(101) /\ points[1].idx = 0
    /\ points[2].timestamp = FromInt(103) /\ points[2].idx = 1

\* the raw speed value a record resolves to: enhanced_speed if present and
\* > 0, otherwise speed if present and > 0, otherwise 0
ResolvedRawSpeed(r) ==
    IF "enhanced_speed" \in DOMAIN r /\ r["enhanced_speed"] > 0 THEN r["enhanced_speed"]
    ELSE IF "speed" \in DOMAIN r /\ r["speed"] > 0 THEN r["speed"]
    ELSE 0

\* the resolved speed (raw / 1000 when raw > 100, raw otherwise) exceeds 0.5
FasterThanHalf(r) ==
    IF ResolvedRawSpeed(r) > 100 THEN 2 * ResolvedRawSpeed(r) > 1000
    ELSE 2 * ResolvedRawSpeed(r) > 1

\* C16: processRecords emits a point for a record if and only if the record's
\* resolved speed is greater than 0.5 m/s, where the resolved speed is
\* enhanced_speed if present and > 0, otherwise speed if present and > 0,
\* otherwise 0, divided by 1000 only when the raw value exceeds 100; hence
\* every emitted point has speed > 0.5 and a record without a speed value is
\* never emitted.
C16_EmittedIffFasterThanHalf ==
    /\ ppc \in {"map", "returned"} => kept = SelectSeq(input, FasterThanHalf)
    /\ \A k \in 1..Len(points) :
          /\ FGt(points[k].speed, Half)
          /\ "speed" \in DOMAIN kept[k] \/ "enhanced_speed" \in DOMAIN kept[k]

\* enhanced_speed 0 and speed 501: the point has speed 0.501
C16_Witness ==
    /\ ppc = "returned"
    /\ input = <<BaseRecord @@ ("speed" :> 501) @@ ("enhanced_speed" :> 0)>>
    /\ Len(points) = 1
    /\ points[1].speed = FDiv(FromInt(501), FromInt(1000))

\* C17: along the output of processRecords, distance is monotonically
\* non-decreasing: each point's distance is greater than or equal to the
\* previous point's, a point whose raw distance is absent or 0 taking the
\* last valid distance carried forward (0 before any valid one).
C17_DistanceNonDecreasing ==
    \A k \in 1..Len(points) :
        /\ k > 1 => FLe(points[k - 1].distance, points[k].distance)
        /\ ("distance" \notin DOMAIN kept[k] \/ kept[k]["distance"] = 0) =>
               points[k].distance = IF k = 1 THEN Zero ELSE points[k - 1].distance

\* the point's field is not the raw integer of the record property
NotRaw(value, r, name) == name \in DOMAIN r => value # FromInt(r[name])

\* C18: in every point processRecords emits, each physical field (speed,
\* distance, gct, vo, sl, vr, gctBalance) is either absent (null, or 0 for
\* gct) or a scaled value that passed a plausibility range check; no field,
\* speed in particular, is ever the record's raw integer passed through
\* unscaled.
C18_NeverRawUnscaled ==
    \A k \in 1..Len(points) :
        /\ NotRaw(points[k].speed, kept[k], "speed")
        /\ NotRaw(points[k].speed, kept[k], "enhanced_speed")
        /\ NotRaw(points[k].distance, kept[k], "distance")
        /\ points[k].gct = Zero
           \/ (FGe(points[k].gct, FromInt(150)) /\ FLe(points[k].gct, FromInt(400)))
        /\ points[k].vo = NullD
           \/ (/\ NotRaw(points[k].vo, kept[k], "vertical_oscillation")
               /\ NotRaw(points[k].vo, kept[k], "vertical_oscillation_stryd"))
        /\ points[k].sl = NullD \/ NotRaw(points[k].sl, kept[k], "step_length")
        /\ points[k].vr = NullD \/ NotRaw(points[k].vr, kept[k], "vertical_ratio")
        /\ points[k].gctBalance = NullD
           \/ NotRaw(points[k].gctBalance, kept[k], "stance_time_balance")

\* raw / 10 lies in [150, 400]
InGate(raw) == raw >= 1500 /\ raw <= 4000

\* stance_time / 10 when that lies in the gate, otherwise ground_time / 10
\* when that lies in the gate, otherwise 0
ExpectedGct(r) ==
    IF "stance_time" \in DOMAIN r /\ InGate(r["stance_time"])
    THEN FDiv(FromInt(r["stance_time"]), FromInt(10))
    ELSE IF "ground_time" \in DOMAIN r /\ InGate(r["ground_time"])
    THEN FDiv(FromInt(r["ground_time"]), FromInt(10))
    ELSE Zero

\* C19: every point processRecords emits has gct = 0 (absent) or
\* 150 <= gct <= 400: gct is the Garmin stance_time/10 when that lies in
\* [150, 400], otherwise the Stryd ground_time/10 when that lies in
\* [150, 400], otherwise 0.
C19_GctGatedGarminFirst ==
    \A k \in 1..Len(points) :
        /\ points[k].gct = ExpectedGct(kept[k])
        /\ points[k].gct = Zero
           \/ (FGe(points[k].gct, FromInt(150)) /\ FLe(points[k].gct, FromInt(400)))

\* stance_time 50 is out of the gate, ground_time 2300 gives 230
C19_Witness ==
    /\ ppc = "returned"
    /\ input = <<BaseRecord @@ ("speed" :> 3000) @@ ("stance_time" :> 50)
                  @@ ("ground_time" :> 2300)>>
    /\ Len(points) = 1
    /\ points[1].gct = FromInt(230)

\* the next double above a positive double
NextUp(x) ==
    IF IncP(<<x.hi, x.lo>>)[1] = 67108864 THEN Dbl(x.neg, 33554432, 0, x.e + 1)
    ELSE Dbl(x.neg, IncP(<<x.hi, x.lo>>)[1], IncP(<<x.hi, x.lo>>)[2], x.e)

\* equal, or neighbours among the doubles
WithinOneUlp(x, y) == x = y \/ x = NextUp(y) \/ y = NextUp(x)

\* the gct of a point whose record has stance_time and no ground_time is
\* stance_time / 10 when 150 <= stance_time / 10 <= 400, and absent (0) otherwise
GctOfStanceTime(k) ==
    ("stance_time" \in DOMAIN kept[k] /\ "ground_time" \notin DOMAIN kept[k]) =>
        points[k].gct = IF InGate(kept[k]["stance_time"])
                        THEN FDiv(FromInt(kept[k]["stance_time"]), FromInt(10))
                        ELSE Zero

\* C20 as stated: getDistanceKm maps every non-zero raw distance r to exactly
\* r/100000 km, with no range gate, and getGctMs maps raw r to r/10 ms exactly
\* when 150 <= r/10 <= 400 and to absent otherwise.
C20_DistanceIsQuotient ==
    \A k \in 1..Len(points) :
        /\ ("distance" \in DOMAIN kept[k] /\ kept[k]["distance"] # 0) =>
               points[k].distance = FDiv(FromInt(kept[k]["distance"]), FromInt(100000))
        /\ GctOfStanceTime(k)

\* C20, amended: getDistanceKm maps every non-zero raw distance r, with no
\* range gate, to the double (r/100)/1000, which is r/100000 or a neighbour of
\* it among the doubles, and is exactly 5 for 500000; getGctMs maps raw r to
\* r/10 ms exactly when 150 <= r/10 <= 400 and to absent otherwise.
C20_DistanceWithinOneUlp ==
    \A k \in 1..Len(points) :
        /\ ("distance" \in DOMAIN kept[k] /\ kept[k]["distance"] # 0) =>
               /\ WithinOneUlp(points[k].distance,
                               FDiv(FromInt(kept[k]["distance"]), FromInt(100000)))
               /\ kept[k]["distance"] = 500000 => points[k].distance = FromInt(5)
        /\ GctOfStanceTime(k)

\* raw distance 3: the point's distance is the double below 3/100000
C20_Witness ==
    /\ ppc = "returned"
    /\ input = <<BaseRecord @@ ("speed" :> 3000) @@ ("distance" :> 3)>>
    /\ Len(points) = 1
    /\ NextUp(points[1].distance) = FDiv(FromInt(3), FromInt(100000))

\* the record has the property with a non-zero raw value
NonZero(r, name) == name \in DOMAIN r /\ r[name] # 0

StripZeros(r) == Without(r, {n \in DOMAIN r \cap ZeroFields : r[n] = 0})

\* C22: each normalizer (distance, speed, ground contact time, vertical
\* oscillation, step length, vertical ratio, stance-time balance, cadence)
\* treats raw value 0 exactly like a missing field: for every record,
\* replacing a field's raw 0 by undefined does not change the emitted points.
C22_ZeroIsMissing ==
    ppc = "returned" =>
        points = processRecords([i \in 1..Len(input) |-> StripZeros(input[i])])

\* a record with cadence 0 and vertical_oscillation 0 beside the other values
C22_Witness ==
    /\ ppc = "returned"
    /\ Len(input) = 1
    /\ Len(points) = 1
    /\ "cadence" \in DOMAIN input[1] /\ input[1]["cadence"] = 0
    /\ "vertical_oscillation" \in DOMAIN input[1] /\ input[1]["vertical_oscillation"] = 0
    /\ points[1].cadence = NullD
    /\ points[1].vo = FromInt(8)
    /\ points[1].sl = FromInt(1100)

\* the first of the properties names that record r has, as a number, or null
FirstPresent(r, names) ==
    IF \E i \in 1..Len(names) : names[i] \in DOMAIN r
    THEN FromInt(r[names[CHOOSE i \in 1..Len(names) :
                            /\ names[i] \in DOMAIN r
                            /\ \A j \in 1..(i - 1) : names[j] \notin DOMAIN r]])
    ELSE NullD

\* the developer value at position i of r is in the range and slot of primary power
IsPowerEntry(r, i) ==
    /\ IsNumber(DevOf(r)[i].val)
    /\ DevOf(r)[i].val # Zero
    /\ DevOf(r)[i].fieldNum = 0
    /\ InRange(DevOf(r)[i].val, FromInt(50), FromInt(800))

\* the heuristically resolved developer power of r: the first such value in key order
ResolvedDevPower(r) ==
    IF \E i \in 1..Len(DevOf(r)) : IsPowerEntry(r, i)
    THEN DevOf(r)[CHOOSE i \in 1..Len(DevOf(r)) :
                     IsPowerEntry(r, i) /\ \A j \in 1..(i - 1) : ~IsPowerEntry(r, j)].val
    ELSE NullD

\* C23: in each emitted point, power is the first non-absent of the
\* heuristically resolved Stryd developer power, the mapped stryd_power field
\* and the Garmin power field; vo is the normalized Garmin
\* vertical_oscillation if present (non-zero), else
\* vertical_oscillation_stryd; altitude is the first non-absent of
\* enhanced_altitude, altitude, elevation; each is null only when all its
\* candidates are absent.
C23_FallbackOrder ==
    \A k \in 1..Len(points) :
        /\ points[k].power =
              IF ResolvedDevPower(kept[k]) # NullD THEN ResolvedDevPower(kept[k])
              ELSE FirstPresent(kept[k], <<"stryd_power", "power">>)
        /\ points[k].vo =
              IF NonZero(kept[k], "vertical_oscillation")
              THEN FDiv(FromInt(kept[k]["vertical_oscillation"]), FromInt(100))
              ELSE FirstPresent(kept[k], <<"vertical_oscillation_stryd">>)
        /\ points[k].altitude =
              FirstPresent(kept[k], <<"enhanced_altitude", "altitude", "elevation">>)
        /\ points[k].power = NullD =>
              /\ ResolvedDevPower(kept[k]) = NullD
              /\ {"stryd_power", "power"} \cap DOMAIN kept[k] = {}
        /\ points[k].altitude = NullD =>
              {"enhanced_altitude", "altitude", "elevation"} \cap DOMAIN kept[k] = {}
        /\ points[k].vo = NullD =>
              /\ ~NonZero(kept[k], "vertical_oscillation")
              /\ "vertical_oscillation_stryd" \notin DOMAIN kept[k]

\* developer power 220 beside stryd_power 250 and power 300: the power is 220
C23_Witness ==
    /\ ppc = "returned"
    /\ Len(points) = 1
    /\ DevOf(kept[1]) = <<ScanEntry(0, 0, FromInt(220))>>
    /\ "stryd_power" \in DOMAIN kept[1] /\ kept[1]["stryd_power"] = 250
    /\ "power" \in DOMAIN kept[1] /\ kept[1]["power"] = 300
    /\ points[1].power = FromInt(220)

\* the categories of the developer values, as properties of the point
Categories == {"power", "formPower", "lss", "airPower", "impactGs"}

\* the value is in the range of the category and its slot is one of the category's
MatchesRule(entry, c) ==
    /\ IsNumber(entry.val)
    /\ entry.val # Zero
    /\ CASE c = "power" -> InRange(entry.val, FromInt(50), FromInt(800)) /\ entry.fieldNum = 0
         [] c = "formPower" ->
              InRange(entry.val, FromInt(30), FromInt(120)) /\ entry.fieldNum = 8
         [] c = "lss" ->
              InRange(entry.val, FromInt(4), FromInt(25)) /\ entry.fieldNum \in {9, 3}
         [] c = "airPower" ->
              InRange(entry.val, Twentieth, FromInt(15)) /\ entry.fieldNum \in {5, 7}
         [] c = "impactGs" ->
              InRange(entry.val, FromInt(5), FromInt(60)) /\ entry.fieldNum = 11

\* the value the category has before the scan: the mapped Stryd field, if any
Preset(r, c) ==
    CASE c = "formPower" -> FirstPresent(r, <<"form_power">>)
      [] c = "lss" -> FirstPresent(r, <<"leg_spring_stiffness">>)
      [] c = "airPower" -> FirstPresent(r, <<"air_power">>)
      [] OTHER -> NullD

\* the values a record holds apart from its developer values
OtherValues(r) ==
    {FromInt(r[n]) : n \in DOMAIN r \cap {"form_power", "leg_spring_stiffness", "air_power",
                                            "stryd_power", "power"}}

\* the developer values of r differ from each other and from the other values
\* of r, so that a property of the point equal to one of them was assigned from it
DistinctValues(r) ==
    /\ \A i, j \in 1..Len(DevOf(r)) : i # j => DevOf(r)[i].val # DevOf(r)[j].val
    /\ \A i \in 1..Len(DevOf(r)) : DevOf(r)[i].val \notin OtherValues(r)

\* the categories the point took from the developer value at position i
AssignedTo(point, r, i) == {c \in Categories : point[c] = DevOf(r)[i].val}

\* C24: processRecords classifies each non-zero developer value stored as
\* dev_<devIndex>_<slot> by the rules primary power (50-800, slot 0), form
\* power (30-120, slot 8), leg-spring stiffness (4-25, slot 9 or 3), air
\* power (0.05-15, slot 5 or 7), impact g-force (5-60, slot 11): a value is
\* assigned to a category only when both its range and its slot match, a
\* value is assigned to at most one category, a value matching no rule is
\* assigned to none, and the first value in key order that matches the rule
\* of a category not yet set is assigned to it.
C24_DevValueClassified ==
    \A k \in 1..Len(points) :
        DistinctValues(kept[k]) =>
            \A i \in 1..Len(DevOf(kept[k])) :
                /\ \A c \in AssignedTo(points[k], kept[k], i) :
                      MatchesRule(DevOf(kept[k])[i], c)
                /\ Cardinality(AssignedTo(points[k], kept[k], i)) <= 1
                /\ (\A c \in Categories : ~MatchesRule(DevOf(kept[k])[i], c)) =>
                      AssignedTo(points[k], kept[k], i) = {}
                /\ \A c \in Categories :
                      (/\ MatchesRule(DevOf(kept[k])[i], c)
                       /\ Preset(kept[k], c) = NullD
                       /\ \A j \in 1..(i - 1) : ~MatchesRule(DevOf(kept[k])[j], c)) =>
                          AssignedTo(points[k], kept[k], i) = {c}

\* 45 under dev_0_11, then 60 under dev_1_8: an impact value and a form power
C24_Witness ==
    /\ ppc = "returned"
    /\ Len(points) = 1
    /\ DevOf(kept[1]) = <<ScanEntry(0, 11, FromInt(45)), ScanEntry(1, 8, FromInt(60))>>
    /\ points[1].impactGs = FromInt(45)
    /\ points[1].formPower = FromInt(60)
    /\ points[1].power = NullD

\* C25: a developer field with value 220 stored under a key ending in _0 is
\* classified as primary power (the emitted point's power is 220) on every
\* invocation of processRecords, whatever other developer fields the record
\* holds and in whatever order they were decoded.
C25_SlotZero220IsPower ==
    \A k \in 1..Len(points) :
        (\E i \in 1..Len(DevOf(kept[k])) :
            /\ DevOf(kept[k])[i].val = FromInt(220)
            /\ DevOf(kept[k])[i].fieldNum = 0) =>
                points[k].power = FromInt(220)

\* the bytes a field read that returned a value has read: those of its base
\* type's width from the field's offset on
ReadEnd(read) == read.at + MinWidthOf(read.field.baseType % 32)

\* the same for a developer field: its declared size
DevReadEnd(read) == read.at + read.devField.size

\* C26: the decoder reads message bytes only inside
\* [headerSize, headerSize+dataSize): the cursor starts at headerSize, every
\* message header byte is read at an offset below headerSize+dataSize, and no
\* field or definition byte is read at or beyond headerSize+dataSize (for
\* example from a trailing CRC).
C26_ReadsInsideStream ==
    pc \in {"loop", "done"} =>
        /\ last.kind = "none" => offset = readHeader(view).headerSize
        /\ last.kind # "none" =>
              /\ last.start >= readHeader(view).headerSize
              /\ last.start < endOffset
        /\ last.kind = "definition" => offset <= endOffset
        /\ \A i \in 1..Len(last.reads) :
              last.reads[i].value # Null => ReadEnd(last.reads[i]) <= endOffset
        /\ \A i \in 1..Len(last.devReads) :
              last.devReads[i].value # Null => DevReadEnd(last.devReads[i]) <= endOffset

\* the byte at off is a definition header (bit 7 clear, bit 6 set) of local type l
DefinitionHeaderAt(v, off, l) ==
    /\ off < Len(v)
    /\ (ByteAt(v, off) \div 64) % 4 = 1
    /\ ByteAt(v, off) % 16 = l

\* C27: the definition table changes only when a definition message has been
\* read completely, and then only the entry for that message's local type is
\* replaced: a data message, a skipped byte, or a definition message cut
\* short by the end of the buffer leaves every entry of the table unchanged.
C27_DefinitionTableFrame ==
    [][/\ definitions' # definitions =>
             /\ last'.kind = "definition"
             /\ DefinitionHeaderAt(view, offset, last'.local)
             /\ offset' <= Len(view)
             /\ DOMAIN definitions' = DOMAIN definitions \cup {last'.local}
             /\ \A l \in DOMAIN definitions \ {last'.local} :
                   definitions'[l] = definitions[l]
       /\ (pc = "loop" /\ pc' = "loop" /\ offset' # offset
            /\ ~(\E l \in 0..15 : DefinitionHeaderAt(view, offset, l))) =>
             definitions' = definitions
       /\ (pc = "loop" /\ last'.kind = "throw") => definitions' = definitions]_vars

\* a definition of local type 1 has just been stored beside the one of local
\* type 0, after a record was decoded
C27_Witness ==
    /\ pc = "loop"
    /\ last.kind = "definition"
    /\ last.local = 1
    /\ DOMAIN definitions = {0, 1}
    /\ Len(records) >= 1

\* a definition message was cut short by the end of the buffer while the table
\* held a definition
C27_WitnessCut ==
    /\ pc = "loop"
    /\ last.kind = "throw"
    /\ DOMAIN definitions # {}

\* C28: a header byte with bit 7 set is always handled as a data message
\* whose local type is bits 6-5 of the byte (0-3), never as a definition
\* message even when bit 6 is set; its fields are decoded exactly as for a
\* normal data header of that local type, and the 5-bit time delta changes no
\* decoded field, the timestamp included.
C28_CompressedHeaderIsData ==
    /\ (/\ pc \in {"loop", "done"}
        /\ last.kind \notin {"none", "end"}
        /\ ByteAt(view, last.start) >= 128) =>
          /\ last.kind \in {"data", "nodef"}
          /\ last.local = (ByteAt(view, last.start) \div 32) % 4
          /\ last.kind = "data" <=> last.local \in DOMAIN definitions
    /\ pc = "done" =>
          \A c \in CompressedCases :
              view = c.file =>
                  /\ records =
                        <<[messageType |-> 20,
                           fields |-> ("timestamp" :> Num(777)) @@ ("speed" :> Num(1000))],
                          [messageType |-> 20,
                           fields |-> ("timestamp" :> Num(777)) @@ ("speed" :> Num(1000))]>>
                  /\ offset = Len(view)

\* header 0xFF (local type 3, delta 31) beside a definition of local type 15:
\* the message is decoded with the layout of local type 3
C28_Witness ==
    /\ pc = "done"
    /\ view = WellSized(12, CompressedBody(3, 31, 15))
    /\ Len(records) = 2
    /\ records[1] = records[2]
    /\ records[1].fields["timestamp"] = Num(777)

\* C29: calling parse() a second time on the same FITParser instance returns
\* the same record sequence as the first call: the second pass restarts at
\* headerSize and its result does not depend on definitions left in the table
\* by the first pass.
C29_SecondParseSame ==
    /\ (calls = 2 /\ pc = "loop" /\ last = NoStep) => offset = readHeader(view).headerSize
    /\ (calls = 2 /\ pc = "done") => records = firstRecords

\* the component shows the analysis of file: its metrics and points, or its error
Shows(state, file) ==
    /\ state.fileName = file.name
    /\ IF file.ok
       THEN /\ state.data = MetricsOf(file)
            /\ state.fullProcessedData = ProcessedOf(file)
            /\ state.error = "null"
       ELSE /\ state.data = "null"
            /\ state.fullProcessedData = "null"
            /\ state.error = ErrorOf(file)

\* C30: when handleFileSelect is invoked for a second file while the first
\* file's load is still pending, then once both loads have finished the
\* displayed analysis (data, fullProcessedData, error) is that of the most
\* recently selected file, the one fileName shows, and loading is false only
\* when no load is pending.
C30_LatestFileDisplayed ==
    /\ (loads # <<>> /\ \A i \in 1..Len(loads) : loads[i].at = "finished") =>
          Shows(ui, loads[Len(loads)].file)
    /\ ~ui.loading => \A i \in 1..Len(loads) : loads[i].at = "finished"

====
